---- MODULE Spec2Model ----
(***************************************************************************)
(* Model of the multi-source aggregation pipeline of the Koyak Kombat      *)
(* backend: platform_router.py (routing), services.py (source adapters),   *)
(* profiler.py (normalisation) and main.py (fan-out / fan-in, splitting).  *)
(***************************************************************************)
EXTENDS Integers, Sequences, FiniteSets, TLC

(***************************************************************************)
(* Bounds of the model.                                                    *)
(***************************************************************************)
\* The largest number of URLs one request carries (both fighters together).
MaxUrls == 2

(***************************************************************************)
(* Strings.  A string is an atom; str.lower is given by its table.         *)
(***************************************************************************)
lower(s) ==
    CASE s = "Bob" -> "bob"
      [] s = "Zuck" -> "zuck"
      [] s = "Amy" -> "amy"
      [] s = "IN" -> "in"
      [] s = "X.com" -> "x.com"
      [] s = "LinkedIn.com" -> "linkedin.com"
      [] OTHER -> s

\* The kinds of character a path segment holds, beside letters and digits.
SegmentChars(s) ==
    CASE s = "jane-doe" -> {"-"}
      [] s = "a.b" -> {"."}
      [] s = "a_b" -> {"_"}
      [] s = "status?x" -> {"?"}
      [] s = "profile.php?id=123" -> {".", "?", "="}
      [] OTHER -> {}

\* A segment matched in full by a character class [a-zA-Z0-9...]+ .
InClass(s, extra) == s # "" /\ SegmentChars(s) \subseteq extra

(***************************************************************************)
(* Insertion-ordered dictionaries (Python dict): a sequence of <<k, v>>.   *)
(***************************************************************************)
DictKeys(d) == {d[i][1] : i \in 1..Len(d)}

DictHas(d, k) == k \in DictKeys(d)

DictGet(d, k) == d[CHOOSE i \in 1..Len(d) : d[i][1] = k][2]

\* d[k] = v : a present key keeps its position, a new one goes last.
DictSet(d, k, v) ==
    IF DictHas(d, k)
    THEN [i \in 1..Len(d) |-> IF d[i][1] = k THEN <<k, v>> ELSE d[i]]
    ELSE Append(d, <<k, v>>)

\* d.get(k, default)
DictGetOr(d, k, default) == IF DictHas(d, k) THEN DictGet(d, k) ELSE default

(***************************************************************************)
(* platform_router.py.  A URL is [host, path]: the host after the optional *)
(* scheme and "www.", and the "/"-separated segments after it (a trailing  *)
(* "/" gives a last segment "").                                           *)
(***************************************************************************)
PatternOrder == <<"twitter", "instagram", "linkedin", "facebook">>

\* The capture of PLATFORM_PATTERNS[platform] on url, or "" when no match.
PatternMatch(platform, url) ==
    LET h == lower(url.host)
        p == url.path
    IN  CASE platform = "twitter" ->
               IF h \in {"twitter.com", "x.com"} /\ Len(p) >= 1 /\ InClass(p[1], {"_"})
               THEN p[1] ELSE ""
          [] platform = "instagram" ->
               IF h = "instagram.com" /\ Len(p) >= 1 /\ InClass(p[1], {"_", "."})
               THEN p[1] ELSE ""
          [] platform = "linkedin" ->
               IF h = "linkedin.com" /\ Len(p) >= 2 /\ lower(p[1]) = "in"
                  /\ InClass(p[2], {"_", "-"})
               THEN p[2] ELSE ""
          [] platform = "facebook" ->
               IF h = "facebook.com" /\ Len(p) >= 1 /\ p[1] = "profile.php?id=123"
               THEN "123"
               ELSE IF h = "facebook.com" /\ Len(p) >= 1 /\ InClass(p[1], {"."})
                    THEN p[1] ELSE ""
          [] OTHER -> ""

RECURSIVE DetectFrom(_, _)
DetectFrom(i, url) ==
    IF i > Len(PatternOrder)
    THEN [platform |-> "unknown", username |-> "", original_url |-> url]
    ELSE IF PatternMatch(PatternOrder[i], url) # ""
         THEN [platform |-> PatternOrder[i],
               username |-> PatternMatch(PatternOrder[i], url),
               original_url |-> url]
         ELSE DetectFrom(i + 1, url)

\* The loop started after the first pattern.
DetectSkipsFirst(url) == DetectFrom(2, url)

detect_platform(url) == DetectFrom(1, url)

RECURSIVE RouteFrom(_, _, _)
RouteFrom(i, urls, result) ==
    IF i > Len(urls) THEN result
    ELSE LET info == detect_platform(urls[i])
             old == DictGetOr(result, info.platform, <<>>)
         IN  RouteFrom(i + 1, urls, DictSet(result, info.platform, Append(old, info)))

route_urls(urls) == RouteFrom(1, urls, <<>>)

(***************************************************************************)
(* Upstream providers.  What a provider answers for an identifier is fixed *)
(* by the identifier: "ghost" has no upstream record, a call that names    *)
(* "slow" times out (the client raises), the record of "weird" is          *)
(* malformed (its key fields are null); every other identifier resolves.   *)
(***************************************************************************)
Null == "<null>"

UpstreamMissing(u) == lower(u) = "ghost"

UpstreamTimesOut(u) == lower(u) = "slow"

\* The provider never answers a call that names "hang".
UpstreamNeverResponds(u) == u = "hang"

UpstreamMalformed(u) == lower(u) = "weird"

\* The key an upstream item echoes for the identifier it was asked for.
EchoedKey(u) == IF UpstreamMalformed(u) THEN Null ELSE lower(u)

\* needle in haystack, for the strings of the model.
IsSubstring(needle, haystack) ==
    \/ needle = haystack
    \/ needle = "amy" /\ haystack = "amy.lee"

(***************************************************************************)
(* Payloads.  A payload is [kind, src, user, fields, posts]: fields are    *)
(* the non-empty fields the normalisers read, posts the page each post     *)
(* item came from.  {} (and [], None) is the payload of kind "empty".      *)
(***************************************************************************)
Payload(kind, src, user, fields, posts) ==
    [kind |-> kind, src |-> src, user |-> user, fields |-> fields, posts |-> posts]

EmptyPayload == Payload("empty", "", "", {}, <<>>)

\* Python truthiness of a payload: `if data:`.
Truthy(p) == p.kind # "empty"

\* What a call returns: a value, or an exception raised to the caller.
Returns(v) == [raised |-> FALSE, value |-> v]

Raises == [raised |-> TRUE, value |-> EmptyPayload]

\* try: body / except Exception: handler
TryExcept(body, handler) == IF body.raised THEN Returns(handler) ELSE body

(***************************************************************************)
(* services.py: SocialDataService and MultiPlatformScraperService.         *)
(***************************************************************************)
VARIABLES has_key, has_token

FALLBACK_KEYS == {"elonmusk", "finkd", "zuck"}

FALLBACK_DATA(k) ==
    IF k = "zuck"
    THEN [platform |-> "instagram",
          data |-> Payload("canned", "instagram", "zuck",
                           {"fullName", "biography", "followersCount"}, <<"zuck">>)]
    ELSE [platform |-> "twitter",
          data |-> Payload("canned", "twitter", k, {"text"}, <<>>)]

\* The lookup without the test of the entry's platform.
HasFallbackAnyPlatform(username, platform) == lower(username) \in FALLBACK_KEYS

\* username.lower() in FALLBACK_DATA and fallback["platform"] == platform
HasFallback(username, platform) ==
    /\ lower(username) \in FALLBACK_KEYS
    /\ FALLBACK_DATA(lower(username)).platform = platform

\* requests.get(..., timeout=10) for one twitter user, and response.json().
SocialDataRequest(username) ==
    IF UpstreamTimesOut(username) \/ UpstreamNeverResponds(username) THEN Raises
    ELSE IF UpstreamMissing(username) THEN Returns([status |-> 404])
    ELSE IF UpstreamMalformed(username) THEN Raises
    ELSE Returns([status |-> 200])

get_user_profile(username) ==
    IF ~has_key THEN Returns(EmptyPayload)
    ELSE TryExcept(
           (LET response == SocialDataRequest(username)
            IN  IF response.raised THEN Raises
                ELSE IF response.value.status # 200 THEN Returns(EmptyPayload)
                ELSE Returns(Payload("profile", "twitter", lower(username),
                                     {"screen_name", "name", "description"}, <<>>))),
           EmptyPayload)

MockTweet(username) == Payload("mock", "twitter", username, {"text"}, <<>>)

scrape_twitter(username) ==
    IF HasFallback(username, "twitter")
    THEN Returns(FALLBACK_DATA(lower(username)).data)
    ELSE IF has_key
         THEN LET profile == get_user_profile(username)
              IN  IF profile.raised THEN Raises
                  ELSE IF Truthy(profile.value) THEN Returns(profile.value)
                  ELSE Returns(MockTweet(username))
         ELSE Returns(MockTweet(username))

\* self.client.actor(ACTORS["instagram"]).call(...) and the dataset's items:
\* one profile item per requested username that has an upstream record.
\* MAX_ITEMS["instagram"], MAX_ITEMS["facebook_posts"]
MaxItemsInstagram == 10

MaxItemsFacebookPosts == 10

\* The posts the profile of u has upstream: "busy" posts a lot.
PostsAvailable(u) == IF u = "busy" THEN 25 ELSE 1

\* The provider honours the limit of the run: of one profile or page it
\* returns its posts up to resultsLimit.
PostsReturned(u, resultsLimit) ==
    IF PostsAvailable(u) <= resultsLimit THEN PostsAvailable(u) ELSE resultsLimit

RECURSIVE InstagramItems(_, _)
InstagramItems(usernames, resultsLimit) ==
    IF usernames = <<>> THEN <<>>
    ELSE LET u == Head(usernames)
             rest == InstagramItems(Tail(usernames), resultsLimit)
         IN  IF UpstreamMissing(u) THEN rest
             ELSE <<Payload("item", "instagram", EchoedKey(u),
                            IF UpstreamMalformed(u) THEN {}
                            ELSE {"fullName", "biography", "followersCount"},
                            IF UpstreamMalformed(u) THEN <<>>
                            ELSE [i \in 1..PostsReturned(u, resultsLimit) |-> lower(u)])>>
                  \o rest

\* run_input = {"usernames": ..., "resultsLimit": MAX_ITEMS["instagram"]}
InstagramActor(usernames) ==
    IF \E i \in 1..Len(usernames) : UpstreamTimesOut(usernames[i])
    THEN Raises
    ELSE Returns(InstagramItems(usernames, MaxItemsInstagram))

scrape_instagram(username) ==
    IF HasFallback(username, "instagram")
    THEN Returns(FALLBACK_DATA(lower(username)).data)
    ELSE IF ~has_token
    THEN Returns(Payload("mock", "instagram", username,
                         {"fullName", "biography", "followersCount"}, <<username>>))
    ELSE TryExcept(
           (LET run == InstagramActor(<<username>>)
            IN  IF run.raised THEN Raises
                ELSE IF run.value # <<>> THEN Returns(run.value[1])
                ELSE Returns(EmptyPayload)),
           Payload("error", "instagram", username, {"biography"}, <<>>))

\* The text of a URL, where an adapter uses the whole URL as an identifier.
UrlText(url) ==
    IF url.host = "LinkedIn.com" THEN "https://LinkedIn.com/in/..." ELSE "https://..."

\* A bare username handed to a parameter that also takes a URL.
AsText(username) == [host |-> "", path |-> <<username>>]

RECURSIVE RStripSlash(_)
RStripSlash(path) ==
    IF path # <<>> /\ path[Len(path)] = ""
    THEN RStripSlash(SubSeq(path, 1, Len(path) - 1))
    ELSE path

\* scrape_linkedin's own extraction of the username from its argument.
LinkedinUsername(username_or_url) ==
    IF username_or_url.host = ""
    THEN username_or_url.path[1]
    ELSE IF username_or_url.host = "linkedin.com"
         THEN LET p == RStripSlash(username_or_url.path)
              IN  IF p = <<>> THEN username_or_url.host ELSE p[Len(p)]
         ELSE UrlText(username_or_url)

\* The two LinkedIn actors: profile detail and profile posts.
LinkedinProfileActor(username) ==
    IF UpstreamTimesOut(username) THEN Raises
    ELSE IF UpstreamMissing(username) THEN Returns(<<>>)
    ELSE Returns(<<Payload("item", "linkedin", EchoedKey(username),
                           IF UpstreamMalformed(username) THEN {}
                           ELSE {"firstName", "lastName", "headline"}, <<>>)>>)

LinkedinPostsActor(username) ==
    IF UpstreamTimesOut(username) THEN Raises
    ELSE IF UpstreamMissing(username) \/ UpstreamMalformed(username) THEN Returns(<<>>)
    ELSE Returns(<<lower(username)>>)

scrape_linkedin(username_or_url) ==
    LET username == LinkedinUsername(username_or_url)
    IN  IF ~has_token
        THEN Returns(Payload("mock", "linkedin", username,
                             {"firstName", "headline", "summary", "positions"}, <<>>))
        ELSE TryExcept(
               (LET profile == LinkedinProfileActor(username)
                    posts == LinkedinPostsActor(username)
                IN  IF profile.raised \/ posts.raised THEN Raises
                    ELSE IF profile.value # <<>>
                         THEN Returns([profile.value[1] EXCEPT !.posts = posts.value])
                         ELSE Returns(EmptyPayload)),
               Payload("error", "linkedin", username, {"summary"}, <<>>))

\* The two Facebook actors on a list of start URLs: one page item per page
\* that exists, one post item per page that exists.
RECURSIVE FacebookPagesItems(_)
FacebookPagesItems(usernames) ==
    IF usernames = <<>> THEN <<>>
    ELSE LET u == Head(usernames)
             rest == FacebookPagesItems(Tail(usernames))
         IN  IF UpstreamMissing(u) THEN rest
             ELSE <<[pageName |-> EchoedKey(u), facebookUrl |-> lower(u),
                     fields |-> IF UpstreamMalformed(u) THEN {} ELSE {"name", "about"}]>>
                  \o rest

FacebookPagesActor(usernames) ==
    IF \E i \in 1..Len(usernames) : UpstreamTimesOut(usernames[i])
    THEN Raises
    ELSE Returns(FacebookPagesItems(usernames))

\* The post items of the pages, each page's posts up to resultsLimit; a post
\* item names its page like a page item.
RECURSIVE FacebookPostsItems(_, _)
FacebookPostsItems(usernames, resultsLimit) ==
    IF usernames = <<>> THEN <<>>
    ELSE LET u == Head(usernames)
             rest == FacebookPostsItems(Tail(usernames), resultsLimit)
         IN  IF UpstreamMissing(u) THEN rest
             ELSE [i \in 1..PostsReturned(u, resultsLimit) |->
                      FacebookPagesItems(<<u>>)[1]]
                  \o rest

FacebookPostsActor(usernames, resultsLimit) ==
    IF \E i \in 1..Len(usernames) : UpstreamTimesOut(usernames[i])
    THEN Raises
    ELSE Returns(FacebookPostsItems(usernames, resultsLimit))

scrape_facebook(username) ==
    IF ~has_token
    THEN Returns(Payload("mock", "facebook", username,
                         {"name", "about", "likes"}, <<username>>))
    ELSE LET page_items == TryExcept(FacebookPagesActor(<<username>>), <<>>).value
             posts == TryExcept(FacebookPostsActor(<<username>>, MaxItemsFacebookPosts), <<>>).value
         IN  IF page_items # <<>> \/ posts # <<>>
             THEN Returns(Payload("item", "facebook",
                                  IF page_items # <<>> THEN page_items[1].pageName
                                  ELSE lower(username),
                                  IF page_items # <<>> THEN page_items[1].fields ELSE {},
                                  [i \in 1..Len(posts) |-> posts[i].pageName]))
             ELSE Returns(EmptyPayload)

scrape_platform(platform, username) ==
    CASE platform = "twitter" -> scrape_twitter(username)
      [] platform = "instagram" -> scrape_instagram(username)
      [] platform = "linkedin" -> scrape_linkedin(AsText(username))
      [] platform = "facebook" -> scrape_facebook(username)
      [] OTHER -> Returns(EmptyPayload)

(***************************************************************************)
(* services.py: the batch entry points.  A result mapping is an ordered    *)
(* dictionary username -> payload.                                         *)
(***************************************************************************)
\* scrape_single of batch_scrape_twitter, and the collecting loop's body for
\* the future of one username.
TwitterScrapeSingle(username) == TryExcept(scrape_twitter(username), EmptyPayload)

TwitterCollect(results, username) ==
    LET data == TwitterScrapeSingle(username).value
    IN  IF Truthy(data) THEN DictSet(results, username, data) ELSE results

\* The collecting loop over usernames in the order their futures complete.
RECURSIVE TwitterInOrder(_, _)
TwitterInOrder(usernames, results) ==
    IF usernames = <<>> THEN results
    ELSE TwitterInOrder(Tail(usernames), TwitterCollect(results, Head(usernames)))

\* for username in usernames: canned payloads first, the rest remain.
RECURSIVE InstagramFallbackLoop(_, _, _)
InstagramFallbackLoop(usernames, results, remaining) ==
    IF usernames = <<>> THEN [results |-> results, remaining |-> remaining]
    ELSE LET u == Head(usernames)
         IN  IF HasFallback(u, "instagram")
             THEN InstagramFallbackLoop(Tail(usernames),
                      DictSet(results, u, FALLBACK_DATA(lower(u)).data), remaining)
             ELSE InstagramFallbackLoop(Tail(usernames), results, Append(remaining, u))

RECURSIVE InstagramMockLoop(_, _)
InstagramMockLoop(remaining, results) ==
    IF remaining = <<>> THEN results
    ELSE InstagramMockLoop(Tail(remaining),
             DictSet(results, Head(remaining),
                     Payload("mock", "instagram", Head(remaining),
                             {"fullName", "biography", "followersCount"},
                             <<Head(remaining)>>)))

\* The first orig_username of remaining_usernames equal to key, ignoring case
\* (0 when none): the inner loop, which breaks at its first hit.
FirstMatch(remaining, key) ==
    LET hits == {i \in 1..Len(remaining) : lower(remaining[i]) = lower(key)}
    IN  IF hits = {} THEN 0 ELSE CHOOSE i \in hits : \A j \in hits : i <= j

\* for item in items: the results dictionary as the loop leaves it; a null
\* echoed key raises at .lower(), and the handler returns results as it is.
RECURSIVE InstagramMatchLoop(_, _, _)
InstagramMatchLoop(items, remaining, results) ==
    IF items = <<>> THEN results
    ELSE IF Head(items).user = Null THEN results
    ELSE LET hit == FirstMatch(remaining, Head(items).user)
         IN  InstagramMatchLoop(Tail(items), remaining,
                 IF hit = 0 THEN results
                 ELSE DictSet(results, remaining[hit], Head(items)))

batch_scrape_instagram(usernames) ==
    IF usernames = <<>> THEN Returns(<<>>)
    ELSE LET split == InstagramFallbackLoop(usernames, <<>>, <<>>)
         IN  IF split.remaining = <<>> THEN Returns(split.results)
             ELSE IF ~has_token
             THEN Returns(InstagramMockLoop(split.remaining, split.results))
             ELSE LET run == InstagramActor(split.remaining)
                  IN  IF run.raised THEN Returns(split.results)
                      ELSE Returns(InstagramMatchLoop(run.value, split.remaining,
                                                      split.results))

RECURSIVE FacebookInitLoop(_, _, _)
FacebookInitLoop(usernames, results, mock) ==
    IF usernames = <<>> THEN results
    ELSE FacebookInitLoop(Tail(usernames),
             DictSet(results, Head(usernames),
                     IF mock
                     THEN Payload("mock", "facebook", Head(usernames),
                                  {"name", "about", "likes"}, <<Head(usernames)>>)
                     ELSE Payload("batch", "facebook", "", {}, <<>>)),
             mock)

\* The first username the item is matched to (0 when none).
FacebookFirstMatch(usernames, item) ==
    LET hits == {i \in 1..Len(usernames) :
                    \/ lower(usernames[i]) = lower(item.pageName)
                    \/ IsSubstring(lower(usernames[i]), lower(item.facebookUrl))}
    IN  IF hits = {} THEN 0 ELSE CHOOSE i \in hits : \A j \in hits : i <= j

\* for item in page_items / for post in post_items: page_name.lower() of a
\* null pageName raises, and nothing here catches it.  Otherwise every item
\* goes, in order, to the first username it matches: a page item updates
\* that username's entry, a post is appended to its posts.
FacebookMatchLoop(items, usernames, results, posts) ==
    IF \E i \in 1..Len(items) : items[i].pageName = Null THEN Raises
    ELSE Returns([j \in 1..Len(results) |->
            LET old == results[j][2]
                mine == SelectSeq(items, LAMBDA item :
                            /\ FacebookFirstMatch(usernames, item) # 0
                            /\ usernames[FacebookFirstMatch(usernames, item)] = results[j][1])
            IN  <<results[j][1],
                  IF mine = <<>> THEN old
                  ELSE IF posts
                  THEN [old EXCEPT !.posts = @ \o [i \in 1..Len(mine) |-> mine[i].pageName]]
                  ELSE [old EXCEPT !.user = mine[Len(mine)].pageName,
                                   !.fields = @ \cup UNION {mine[i].fields : i \in 1..Len(mine)}]>>])

batch_scrape_facebook(usernames) ==
    IF usernames = <<>> THEN Returns(<<>>)
    ELSE IF ~has_token THEN Returns(FacebookInitLoop(usernames, <<>>, TRUE))
    ELSE LET page_items == TryExcept(FacebookPagesActor(usernames), <<>>).value
             post_items == TryExcept(FacebookPostsActor(usernames,
                                  MaxItemsFacebookPosts * Len(usernames)), <<>>).value
             results == FacebookInitLoop(usernames, <<>>, FALSE)
             paged == FacebookMatchLoop(page_items, usernames, results, FALSE)
         IN  IF paged.raised THEN Raises
             ELSE FacebookMatchLoop(post_items, usernames, paged.value, TRUE)

(***************************************************************************)
(* The upstream calls an entry point issues: [api, ids], in program order. *)
(***************************************************************************)
Call(api, ids) == [api |-> api, ids |-> ids]

\* The request issued before the canned payloads are looked up.
CallsBeforeLookup(username) ==
    IF has_key THEN <<Call("socialdata", <<username>>)>> ELSE <<>>

scrape_twitter_calls(username) ==
    IF HasFallback(username, "twitter") \/ ~has_key THEN <<>>
    ELSE <<Call("socialdata", <<username>>)>>

scrape_instagram_calls(username) ==
    IF HasFallback(username, "instagram") \/ ~has_token THEN <<>>
    ELSE <<Call("instagram", <<username>>)>>

scrape_linkedin_calls(username_or_url) ==
    IF ~has_token THEN <<>>
    ELSE <<Call("linkedin", <<LinkedinUsername(username_or_url)>>),
           Call("linkedin_posts", <<LinkedinUsername(username_or_url)>>)>>

scrape_facebook_calls(username) ==
    IF ~has_token THEN <<>>
    ELSE <<Call("facebook_pages", <<username>>), Call("facebook_posts", <<username>>)>>

scrape_platform_calls(platform, username) ==
    CASE platform = "twitter" -> scrape_twitter_calls(username)
      [] platform = "instagram" -> scrape_instagram_calls(username)
      [] platform = "linkedin" -> scrape_linkedin_calls(AsText(username))
      [] platform = "facebook" -> scrape_facebook_calls(username)
      [] OTHER -> <<>>

\* One call per identifier instead of one for the group.
PerIdentifierCalls(usernames) ==
    [i \in 1..Len(usernames) |-> Call("instagram", <<usernames[i]>>)]

batch_scrape_instagram_calls(usernames) ==
    LET remaining == InstagramFallbackLoop(usernames, <<>>, <<>>).remaining
    IN  IF usernames = <<>> \/ remaining = <<>> \/ ~has_token THEN <<>>
        ELSE <<Call("instagram", remaining)>>

\* The two actor runs started whatever the list holds.
CallsForAnyList(usernames) ==
    IF ~has_token THEN <<>>
    ELSE <<Call("facebook_pages", usernames), Call("facebook_posts", usernames)>>

batch_scrape_facebook_calls(usernames) ==
    IF usernames = <<>> \/ ~has_token THEN <<>>
    ELSE <<Call("facebook_pages", usernames), Call("facebook_posts", usernames)>>

(***************************************************************************)
(* profiler.py: ProfileAggregator.  A section is [head, user, kind, parts]; *)
(* a corpus is the sequence of the sections the delimiter joins.           *)
(***************************************************************************)
Section(head, p, parts) == [head |-> head, user |-> p.user, kind |-> p.kind, parts |-> parts]

NoData(head) == [head |-> head, user |-> "", kind |-> "", parts |-> {}]

Sentinel == NoData("No social media data available for this person.")

normalize_twitter(raw_data) ==
    IF ~Truthy(raw_data) THEN NoData("No Twitter data available.")
    ELSE IF raw_data.fields \cap {"screen_name", "description"} # {}
    THEN Section("TWITTER PROFILE", raw_data, raw_data.fields \cap {"name", "screen_name", "description"})
    ELSE IF "text" \in raw_data.fields
    THEN Section("TWITTER POSTS", raw_data, {"text"})
    ELSE NoData("No Twitter data available.")

normalize_instagram(raw_data) ==
    LET parts == (raw_data.fields \cap {"fullName", "biography", "followersCount"})
                 \cup (IF raw_data.posts # <<>> THEN {"posts"} ELSE {})
    IN  IF ~Truthy(raw_data) \/ parts = {}
        THEN NoData("No Instagram data available.")
        ELSE Section("INSTAGRAM PROFILE", raw_data, parts)

normalize_linkedin(raw_data) ==
    LET parts == (raw_data.fields \cap {"firstName", "lastName", "headline", "summary", "positions"})
                 \cup (IF raw_data.posts # <<>> THEN {"posts"} ELSE {})
    IN  IF ~Truthy(raw_data) \/ parts = {}
        THEN NoData("No LinkedIn data available.")
        ELSE Section("LINKEDIN PROFILE", raw_data, parts)

normalize_facebook(raw_data) ==
    LET parts == (raw_data.fields \cap {"name", "about", "likes"})
                 \cup (IF raw_data.posts # <<>> THEN {"posts"} ELSE {})
    IN  IF ~Truthy(raw_data) \/ parts = {}
        THEN NoData("No Facebook data available.")
        ELSE Section("FACEBOOK PROFILE", raw_data, parts)

\* "<platform>" in platform_data and platform_data["<platform>"]
Present(platform_data, platform) ==
    DictHas(platform_data, platform) /\ Truthy(DictGet(platform_data, platform))

\* The normaliser of a platform.
normalize(platform, raw_data) ==
    CASE platform = "twitter" -> normalize_twitter(raw_data)
      [] platform = "instagram" -> normalize_instagram(raw_data)
      [] platform = "linkedin" -> normalize_linkedin(raw_data)
      [] platform = "facebook" -> normalize_facebook(raw_data)

\* The sections taken in the key order of the dictionary.
RECURSIVE SectionsInKeyOrder(_)
SectionsInKeyOrder(platform_data) ==
    IF platform_data = <<>> THEN <<>>
    ELSE (IF Truthy(Head(platform_data)[2])
          THEN <<normalize(Head(platform_data)[1], Head(platform_data)[2])>> ELSE <<>>)
         \o SectionsInKeyOrder(Tail(platform_data))

AggregateInKeyOrder(platform_data) ==
    IF SectionsInKeyOrder(platform_data) = <<>> THEN <<Sentinel>>
    ELSE SectionsInKeyOrder(platform_data)

aggregate(platform_data) ==
    LET sections ==
            (IF Present(platform_data, "twitter")
             THEN <<normalize_twitter(DictGet(platform_data, "twitter"))>> ELSE <<>>)
         \o (IF Present(platform_data, "instagram")
             THEN <<normalize_instagram(DictGet(platform_data, "instagram"))>> ELSE <<>>)
         \o (IF Present(platform_data, "linkedin")
             THEN <<normalize_linkedin(DictGet(platform_data, "linkedin"))>> ELSE <<>>)
         \o (IF Present(platform_data, "facebook")
             THEN <<normalize_facebook(DictGet(platform_data, "facebook"))>> ELSE <<>>)
    IN  IF sections = <<>> THEN <<Sentinel>> ELSE sections

(***************************************************************************)
(* main.py: helpers of the two create paths.                               *)
(***************************************************************************)
\* ThreadPoolExecutor(max_workers=4)
MaxWorkers == 4

\* A display name: a default, "@" + username, or a first and last name.
DefaultName(text) == [kind |-> "default", of |-> text]

AtName(username) == [kind |-> "at", of |-> username]

FullName(data) == [kind |-> "full", of |-> data.user]

\* scrape_tasks: (platform, username) of every routed identifier but "unknown".
\* The task list with no platform skipped.
RECURSIVE ScrapeTasksAll(_)
ScrapeTasksAll(routed) ==
    IF routed = <<>> THEN <<>>
    ELSE [j \in 1..Len(Head(routed)[2]) |->
             <<Head(routed)[1], Head(routed)[2][j].username>>]
         \o ScrapeTasksAll(Tail(routed))

RECURSIVE ScrapeTasks(_)
ScrapeTasks(routed) ==
    IF routed = <<>> THEN <<>>
    ELSE (IF Head(routed)[1] = "unknown" THEN <<>>
          ELSE [j \in 1..Len(Head(routed)[2]) |->
                   <<Head(routed)[1], Head(routed)[2][j].username>>])
         \o ScrapeTasks(Tail(routed))

\* The body of the collecting loop for one completed future.
CollectOne(data_name, task, result) ==
    IF result.raised \/ ~Truthy(result.value) THEN data_name
    ELSE [platform_data |-> DictSet(data_name.platform_data, task[1], result.value),
          detected_name |-> IF data_name.detected_name = DefaultName("Digital Twin")
                            THEN AtName(task[2]) ELSE data_name.detected_name]

\* [info.username for info in routed.get(platform, [])]
RoutedUsernames(routed, platform) ==
    LET infos == DictGetOr(routed, platform, <<>>)
    IN  [j \in 1..Len(infos) |-> infos[j].username]

\* [(info.username, info.original_url) for info in routed.get("linkedin", [])]
RoutedProfiles(routed) ==
    LET infos == DictGetOr(routed, "linkedin", <<>>)
    IN  [j \in 1..Len(infos) |-> <<infos[j].username, infos[j].original_url>>]

\* <platform>_username_to_fighter: fighter 1's usernames, then fighter 2's.
RECURSIVE OwnerLoop(_, _, _)
OwnerLoop(usernames, fighter, owners) ==
    IF usernames = <<>> THEN owners
    ELSE OwnerLoop(Tail(usernames), fighter, DictSet(owners, Head(usernames), fighter))

username_to_fighter(f1_routed, f2_routed, platform) ==
    OwnerLoop(RoutedUsernames(f2_routed, platform), "f2",
              OwnerLoop(RoutedUsernames(f1_routed, platform), "f1", <<>>))

\* The argument list of the batch call of each platform, in submission order.
BatchPlatforms == <<"instagram", "facebook", "twitter", "linkedin">>

BatchArgs(f1_routed, f2_routed, k) ==
    IF BatchPlatforms[k] = "linkedin"
    THEN RoutedProfiles(f1_routed) \o RoutedProfiles(f2_routed)
    ELSE RoutedUsernames(f1_routed, BatchPlatforms[k])
         \o RoutedUsernames(f2_routed, BatchPlatforms[k])

\* scrape_single of scrape_linkedin_profiles
LinkedinScrapeSingle(item) == TryExcept(scrape_linkedin(item[2]), EmptyPayload)

RECURSIVE LinkedinProfilesLoop(_, _)
LinkedinProfilesLoop(profiles, results) ==
    IF profiles = <<>> THEN results
    ELSE LET data == LinkedinScrapeSingle(Head(profiles)).value
         IN  LinkedinProfilesLoop(Tail(profiles),
                 IF Truthy(data) THEN DictSet(results, Head(profiles)[1], data)
                 ELSE results)

scrape_linkedin_profiles(profiles) == Returns(LinkedinProfilesLoop(profiles, <<>>))

\* Step 3 of create_fighters_batch: one loop over a platform's results.
\* st is [f1_data, f2_data, f1_name, f2_name].
SplitName(platform, username, data) ==
    IF platform = "linkedin" /\ data.fields \cap {"firstName", "lastName"} # {}
    THEN FullName(data) ELSE AtName(username)

RECURSIVE SplitLoop(_, _, _, _)
SplitLoop(platform, results, owners, st) ==
    IF results = <<>> THEN st
    ELSE LET username == Head(results)[1]
             data == Head(results)[2]
             named == platform # "facebook"
         IN  SplitLoop(platform, Tail(results), owners,
                 IF DictGetOr(owners, username, "") = "f1"
                 THEN [st EXCEPT !.f1_data = DictSet(@, platform, data),
                                 !.f1_name = IF named /\ @ = DefaultName("Digital Twin 1")
                                             THEN SplitName(platform, username, data)
                                             ELSE @]
                 ELSE [st EXCEPT !.f2_data = DictSet(@, platform, data),
                                 !.f2_name = IF named /\ @ = DefaultName("Digital Twin 2")
                                             THEN SplitName(platform, username, data)
                                             ELSE @])

SplitResults(f1_routed, f2_routed, ig, fb, tw, li) ==
    LET st0 == [f1_data |-> <<>>, f2_data |-> <<>>,
                f1_name |-> DefaultName("Digital Twin 1"),
                f2_name |-> DefaultName("Digital Twin 2")]
        st1 == SplitLoop("instagram", ig,
                         username_to_fighter(f1_routed, f2_routed, "instagram"), st0)
        st2 == SplitLoop("facebook", fb,
                         username_to_fighter(f1_routed, f2_routed, "facebook"), st1)
        st3 == SplitLoop("twitter", tw,
                         username_to_fighter(f1_routed, f2_routed, "twitter"), st2)
    IN  SplitLoop("linkedin", li,
                  username_to_fighter(f1_routed, f2_routed, "linkedin"), st3)

\* _build_fighter_response, up to the Synthesizer: what it is handed.
build_fighter_response(platform_data, detected_name) ==
    [context |-> aggregate(platform_data), name |-> detected_name,
     platforms_scraped |-> DictKeys(platform_data)]

(***************************************************************************)
(* The requests.  mode "single" is create_fighter / _scrape_fighter_data   *)
(* on fighter1_urls, mode "batch" is create_fighters_batch.                *)
(***************************************************************************)
VARIABLES
    mode,            \* which endpoint handles the request
    fighter1_urls,   \* the request's URLs (fighter.urls, batch.fighter1_urls)
    fighter2_urls,   \* batch.fighter2_urls
    pc,              \* where the handler is
    futures,         \* the pool's futures: [task, state, result]
    collected,       \* single: the futures as_completed has handed out
    awaiting,        \* batch: the future whose result() the handler waits for
    tw_pending,      \* batch_scrape_twitter: usernames whose future is not done
    tw_partial,      \* batch_scrape_twitter: its results dictionary so far
    platform_data,   \* single: platform -> payload
    detected_name,   \* single
    batch_results,   \* batch: [ig, fb, tw, li], the four results dictionaries
    split,           \* batch: [f1_data, f2_data, f1_name, f2_name]
    response,        \* what each entity's Synthesizer call is handed
    call,            \* a direct call of one function: [fn, arg]
    returned         \* what the direct call returned

vars == <<has_key, has_token, mode, fighter1_urls, fighter2_urls, pc, futures,
          collected, awaiting, tw_pending, tw_partial, platform_data,
          detected_name, batch_results, split, response, call, returned>>

Url(host, path) == [host |-> host, path |-> path]

\* The URLs requests are drawn from.
RequestUrls ==
    {Url("twitter.com", <<"amy">>), Url("x.com", <<"ghost">>),
     Url("instagram.com", <<"bob">>), Url("instagram.com", <<"ghost">>),
     Url("linkedin.com", <<"in", "amy">>), Url("linkedin.com", <<"in", "slow">>),
     Url("instagram.com", <<"zuck">>),
     Url("facebook.com", <<"amy">>), Url("facebook.com", <<"ghost">>),
     Url("facebook.com", <<"weird">>),
     Url("example.com", <<"amy">>)}

SeqsUpTo(S, n) == UNION {[1..k -> S] : k \in 0..n}

Future(task) ==
    [task |-> task, state |-> "running", result |-> Returns(<<>>), calls |-> <<>>]

NoSplit == [f1_data |-> <<>>, f2_data |-> <<>>,
            f1_name |-> DefaultName("Digital Twin 1"),
            f2_name |-> DefaultName("Digital Twin 2")]

\* No direct call is made while a request is handled.
NoCall == [fn |-> "none", arg |-> <<>>]

NoReturn == [value |-> <<>>, calls |-> <<>>]

\* The handler's own state before it starts.
HandlerIdle ==
    /\ futures = <<>>
    /\ collected = {}
    /\ awaiting = 0
    /\ tw_pending = {}
    /\ tw_partial = <<>>
    /\ platform_data = <<>>
    /\ detected_name = DefaultName("Digital Twin")
    /\ batch_results = [k \in 1..4 |-> <<>>]
    /\ split = NoSplit
    /\ response = <<>>
    /\ returned = NoReturn

\* A request of at most n URLs drawn from urls arrives.
RequestArrives(urls, n) ==
    /\ has_key \in BOOLEAN
    /\ has_token \in BOOLEAN
    /\ mode \in {"single", "batch"}
    /\ fighter1_urls \in SeqsUpTo(urls, n)
    /\ fighter2_urls \in SeqsUpTo(urls, n)
    /\ Len(fighter1_urls) + Len(fighter2_urls) <= n
    /\ mode = "single" => fighter2_urls = <<>>
    /\ pc = "start"
    /\ call = NoCall
    /\ HandlerIdle

Init == RequestArrives(RequestUrls, MaxUrls)

Running == {i \in DOMAIN futures : futures[i].state = "running"}

Queued == {i \in DOMAIN futures : futures[i].state = "queued"}

\* Leaving the pool without waiting for its futures.
ShutdownNoWait == TRUE

\* with ThreadPoolExecutor(...) as executor: leaving the block joins the
\* workers (shutdown(wait=True)).
ShutdownWait == \A i \in DOMAIN futures : futures[i].state = "done"

\* A worker ends future i with result r, having issued the upstream calls c,
\* and takes the next queued work item.
Complete(i, r, c) ==
    LET next == IF Queued = {} THEN 0 ELSE CHOOSE j \in Queued : \A k \in Queued : j <= k
    IN  [j \in DOMAIN futures |->
            IF j = i THEN [futures[j] EXCEPT !.state = "done", !.result = r, !.calls = c]
            ELSE IF j = next THEN [futures[j] EXCEPT !.state = "running"]
            ELSE futures[j]]

----------------------------------------------------------------------------
(* create_fighter / _scrape_fighter_data *)

\* executor.submit for every scrape task: the first max_workers start at once.
SubmitSingle ==
    /\ pc = "start" /\ mode = "single"
    /\ LET scrape_tasks == ScrapeTasks(route_urls(fighter1_urls))
       IN  futures' = [i \in 1..Len(scrape_tasks) |->
                          [Future(scrape_tasks[i]) EXCEPT
                              !.state = IF i <= MaxWorkers THEN "running" ELSE "queued"]]
    /\ pc' = "collect"
    /\ UNCHANGED <<call, returned, has_key, has_token, mode, fighter1_urls, fighter2_urls, collected,
                   awaiting, tw_pending, tw_partial, platform_data, detected_name,
                   batch_results, split, response>>

\* client.actor(...).call(run_input=...) carries no timeout: a run the
\* provider never answers never returns (requests.get has timeout=10).
NeverReturns(calls) ==
    \E i \in 1..Len(calls) :
        /\ calls[i].api # "socialdata"
        /\ \E j \in 1..Len(calls[i].ids) : UpstreamNeverResponds(calls[i].ids[j])

\* A worker that stores its result in platform_data itself.
WorkerStoresResult(i) ==
    /\ mode = "single" /\ i \in Running
    /\ ~NeverReturns(scrape_platform_calls(futures[i].task[1], futures[i].task[2]))
    /\ futures' = Complete(i, scrape_platform(futures[i].task[1], futures[i].task[2]),
                            scrape_platform_calls(futures[i].task[1], futures[i].task[2]))
    /\ platform_data' = CollectOne([platform_data |-> platform_data,
                                    detected_name |-> detected_name],
                                   futures[i].task,
                                   scrape_platform(futures[i].task[1], futures[i].task[2])).platform_data
    /\ UNCHANGED <<call, returned, has_key, has_token, mode, fighter1_urls, fighter2_urls, pc, collected,
                   awaiting, tw_pending, tw_partial, detected_name,
                   batch_results, split, response>>

\* A worker thread runs scraper_service.scrape_platform to its end.
FinishScrape(i) ==
    /\ mode = "single" /\ i \in Running
    /\ ~NeverReturns(scrape_platform_calls(futures[i].task[1], futures[i].task[2]))
    /\ futures' = Complete(i, scrape_platform(futures[i].task[1], futures[i].task[2]),
                            scrape_platform_calls(futures[i].task[1], futures[i].task[2]))
    /\ UNCHANGED <<call, returned, has_key, has_token, mode, fighter1_urls, fighter2_urls, pc, collected,
                   awaiting, tw_pending, tw_partial, platform_data, detected_name,
                   batch_results, split, response>>

\* for future in as_completed(future_to_task): one iteration.
Collect(i) ==
    /\ pc = "collect" /\ i \in DOMAIN futures
    /\ futures[i].state = "done" /\ i \notin collected
    /\ LET after == CollectOne([platform_data |-> platform_data,
                                detected_name |-> detected_name],
                               futures[i].task, futures[i].result)
       IN  /\ platform_data' = after.platform_data
           /\ detected_name' = after.detected_name
    /\ collected' = collected \cup {i}
    /\ UNCHANGED <<call, returned, has_key, has_token, mode, fighter1_urls, fighter2_urls, pc, futures,
                   awaiting, tw_pending, tw_partial, batch_results, split, response>>

\* The with-block ends (shutdown(wait=True)) once the loop is over.
SingleLoopOver == collected = DOMAIN futures

ExitPoolSingle ==
    /\ pc = "collect" /\ SingleLoopOver /\ ShutdownWait
    /\ pc' = "aggregate"
    /\ UNCHANGED <<call, returned, has_key, has_token, mode, fighter1_urls, fighter2_urls, futures,
                   collected, awaiting, tw_pending, tw_partial, platform_data,
                   detected_name, batch_results, split, response>>

\* ProfileAggregator.aggregate(platform_data), handed to the profiler.
AggregateSingle ==
    /\ pc = "aggregate" /\ mode = "single"
    /\ response' = <<build_fighter_response(platform_data, detected_name)>>
    /\ pc' = "done"
    /\ UNCHANGED <<call, returned, has_key, has_token, mode, fighter1_urls, fighter2_urls, futures,
                   collected, awaiting, tw_pending, tw_partial, platform_data,
                   detected_name, batch_results, split>>

----------------------------------------------------------------------------
(* create_fighters_batch *)

NextSubmitted(k) ==
    LET later == {j \in DOMAIN futures : j > k}
    IN  IF later = {} THEN 5 ELSE CHOOSE j \in later : \A i \in later : j <= i

\* Steps 1 and 2: route, group by platform, submit one future per platform
\* that has identifiers.
SubmitBatch ==
    /\ pc = "start" /\ mode = "batch"
    /\ LET f1_routed == route_urls(fighter1_urls)
           f2_routed == route_urls(fighter2_urls)
           submitted == {k \in 1..4 : BatchArgs(f1_routed, f2_routed, k) # <<>>}
       IN  /\ futures' = [k \in submitted |-> Future(BatchArgs(f1_routed, f2_routed, k))]
           /\ tw_pending' = IF 3 \in submitted
                            THEN 1..Len(BatchArgs(f1_routed, f2_routed, 3)) ELSE {}
           /\ awaiting' = IF submitted = {} THEN 5
                          ELSE CHOOSE j \in submitted : \A i \in submitted : j <= i
    /\ pc' = "await"
    /\ UNCHANGED <<call, returned, has_key, has_token, mode, fighter1_urls, fighter2_urls, collected,
                   tw_partial, platform_data, detected_name, batch_results, split,
                   response>>

\* batch_scrape_twitter: the future of one username completes and
\* as_completed hands it to the collecting loop.
TwitterInner(i) ==
    /\ mode = "batch" /\ 3 \in Running /\ i \in tw_pending
    /\ tw_partial' = TwitterCollect(tw_partial, futures[3].task[i])
    /\ tw_pending' = tw_pending \ {i}
    /\ UNCHANGED <<call, returned, has_key, has_token, mode, fighter1_urls, fighter2_urls, pc, futures,
                   collected, awaiting, platform_data, detected_name, batch_results,
                   split, response>>

BatchCall(k, args) ==
    CASE k = 1 -> batch_scrape_instagram(args)
      [] k = 2 -> batch_scrape_facebook(args)
      [] k = 3 -> Returns(tw_partial)
      [] k = 4 -> scrape_linkedin_profiles(args)

RECURSIVE batch_scrape_twitter_calls(_)
batch_scrape_twitter_calls(usernames) ==
    IF usernames = <<>> THEN <<>>
    ELSE scrape_twitter_calls(Head(usernames)) \o batch_scrape_twitter_calls(Tail(usernames))

RECURSIVE scrape_linkedin_profiles_calls(_)
scrape_linkedin_profiles_calls(profiles) ==
    IF profiles = <<>> THEN <<>>
    ELSE scrape_linkedin_calls(Head(profiles)[2])
         \o scrape_linkedin_profiles_calls(Tail(profiles))

BatchCalls(k, args) ==
    CASE k = 1 -> batch_scrape_instagram_calls(args)
      [] k = 2 -> batch_scrape_facebook_calls(args)
      [] k = 3 -> batch_scrape_twitter_calls(args)
      [] k = 4 -> scrape_linkedin_profiles_calls(args)

\* A worker thread runs the batch call of one platform to its end.
FinishBatch(k) ==
    /\ mode = "batch" /\ k \in Running
    /\ k = 3 => tw_pending = {}
    /\ ~NeverReturns(BatchCalls(k, futures[k].task))
    /\ futures' = Complete(k, BatchCall(k, futures[k].task), BatchCalls(k, futures[k].task))
    /\ UNCHANGED <<call, returned, has_key, has_token, mode, fighter1_urls, fighter2_urls, pc, collected,
                   awaiting, tw_pending, tw_partial, platform_data, detected_name,
                   batch_results, split, response>>

\* <platform>_results = <platform>_future.result()
Await ==
    /\ pc = "await" /\ awaiting \in DOMAIN futures
    /\ futures[awaiting].state = "done"
    /\ IF futures[awaiting].result.raised
       THEN /\ pc' = "raising"
            /\ UNCHANGED <<awaiting, batch_results>>
       ELSE /\ batch_results' = [batch_results EXCEPT ![awaiting] = futures[awaiting].result.value]
            /\ awaiting' = NextSubmitted(awaiting)
            /\ pc' = pc
    /\ UNCHANGED <<call, returned, has_key, has_token, mode, fighter1_urls, fighter2_urls, futures,
                   collected, tw_pending, tw_partial, platform_data, detected_name,
                   split, response>>

\* The with-block ends (shutdown(wait=True)) after the last result().
BatchAwaitsOver == awaiting = 5

ExitPoolBatch ==
    /\ pc = "await" /\ BatchAwaitsOver /\ ShutdownWait
    /\ pc' = "split"
    /\ UNCHANGED <<call, returned, has_key, has_token, mode, fighter1_urls, fighter2_urls, futures,
                   collected, awaiting, tw_pending, tw_partial, platform_data,
                   detected_name, batch_results, split, response>>

\* A result() raised: the with-block still joins its workers, then the
\* exception leaves create_fighters_batch.
ExitPoolRaising ==
    /\ pc = "raising" /\ ShutdownWait
    /\ pc' = "raised"
    /\ UNCHANGED <<call, returned, has_key, has_token, mode, fighter1_urls, fighter2_urls, futures,
                   collected, awaiting, tw_pending, tw_partial, platform_data,
                   detected_name, batch_results, split, response>>

\* Step 3: split the results back to each fighter.
Split ==
    /\ pc = "split"
    /\ split' = SplitResults(route_urls(fighter1_urls), route_urls(fighter2_urls),
                             batch_results[1], batch_results[2],
                             batch_results[3], batch_results[4])
    /\ pc' = "personas"
    /\ UNCHANGED <<call, returned, has_key, has_token, mode, fighter1_urls, fighter2_urls, futures,
                   collected, awaiting, tw_pending, tw_partial, platform_data,
                   detected_name, batch_results, response>>

\* Step 4: _build_fighter_response for both fighters.
BuildBatch ==
    /\ pc = "personas"
    /\ response' = <<build_fighter_response(split.f1_data, split.f1_name),
                     build_fighter_response(split.f2_data, split.f2_name)>>
    /\ pc' = "done"
    /\ UNCHANGED <<call, returned, has_key, has_token, mode, fighter1_urls, fighter2_urls, futures,
                   collected, awaiting, tw_pending, tw_partial, platform_data,
                   detected_name, batch_results, split>>

----------------------------------------------------------------------------
Next ==
    \/ SubmitSingle
    \/ \E i \in DOMAIN futures : FinishScrape(i)
    \/ \E i \in DOMAIN futures : Collect(i)
    \/ ExitPoolSingle
    \/ AggregateSingle
    \/ SubmitBatch
    \/ \E i \in tw_pending : TwitterInner(i)
    \/ \E k \in DOMAIN futures : FinishBatch(k)
    \/ Await
    \/ ExitPoolBatch
    \/ ExitPoolRaising
    \/ Split
    \/ BuildBatch

Spec == Init /\ [][Next]_vars

----------------------------------------------------------------------------
(***************************************************************************)
(* Requests of more URLs, on sources whose adapters run nested pools.      *)
(***************************************************************************)
\* The largest number of URLs of such a request (both fighters together).
MaxWide == 3

WideUrls ==
    {Url("twitter.com", <<"amy">>), Url("linkedin.com", <<"in", "amy">>),
     Url("facebook.com", <<"weird">>)}

InitWide == RequestArrives(WideUrls, MaxWide)

SpecWide == InitWide /\ [][Next]_vars

----------------------------------------------------------------------------
(***************************************************************************)
(* Requests whose LinkedIn URLs are written in the forms the router's      *)
(* pattern accepts: another letter case, a trailing "/", a path after the  *)
(* username.                                                               *)
(***************************************************************************)
\* The largest number of URLs of such a request (both fighters together).
MaxForms == 2

FormUrls ==
    {Url("linkedin.com", <<"in", "amy">>), Url("LinkedIn.com", <<"in", "amy">>),
     Url("linkedin.com", <<"IN", "amy">>), Url("linkedin.com", <<"in", "jane-doe", "">>),
     Url("linkedin.com", <<"in", "amy", "details", "skills">>),
     Url("twitter.com", <<"amy">>), Url("facebook.com", <<"weird">>)}

InitForms == RequestArrives(FormUrls, MaxForms)

SpecForms == InitForms /\ [][Next]_vars

----------------------------------------------------------------------------
(***************************************************************************)
(* Requests that name a source that never answers, with the threads of     *)
(* the process scheduled fairly: a step that can be taken is taken.        *)
(***************************************************************************)
\* The largest number of URLs of such a request (both fighters together).
MaxLive == 2

LiveUrls ==
    {Url("x.com", <<"hang">>), Url("instagram.com", <<"hang">>),
     Url("facebook.com", <<"weird">>)}

InitLive == RequestArrives(LiveUrls, MaxLive)

SpecLive == InitLive /\ [][Next]_vars /\ WF_vars(Next)

\* The upstream calls a running future has in flight.  An adapter with a
\* nested pool of two (scrape_linkedin, scrape_facebook, batch_scrape_facebook)
\* submits both its actor runs at once; batch_scrape_twitter runs the
\* requests of its pending usernames four at a time; scrape_linkedin_profiles
\* runs scrape_linkedin for two profiles at a time.
FirstOf(seq, n) == SubSeq(seq, 1, IF Len(seq) < n THEN Len(seq) ELSE n)

PendingUsernames ==
    SelectSeq(futures[3].task,
              LAMBDA u : \E i \in tw_pending : futures[3].task[i] = u)

InFlight(i) ==
    IF futures[i].state # "running" THEN <<>>
    ELSE IF mode = "single"
    THEN scrape_platform_calls(futures[i].task[1], futures[i].task[2])
    ELSE CASE i = 1 -> batch_scrape_instagram_calls(futures[i].task)
           [] i = 2 -> batch_scrape_facebook_calls(futures[i].task)
           [] i = 3 -> batch_scrape_twitter_calls(FirstOf(PendingUsernames, 4))
           [] i = 4 -> scrape_linkedin_profiles_calls(FirstOf(futures[i].task, 2))

RECURSIVE InFlightIn(_)
InFlightIn(is) ==
    IF is = {} THEN 0
    ELSE LET i == CHOOSE x \in is : TRUE
         IN  Len(InFlight(i)) + InFlightIn(is \ {i})


----------------------------------------------------------------------------
(***************************************************************************)
(* Direct calls.  One function of the program is called once on an         *)
(* argument drawn from a bounded set, and returns.                         *)
(***************************************************************************)
\* The longest list a direct call is handed.
MaxCallLen == 2

Hosts == {"twitter.com", "x.com", "X.com", "instagram.com", "linkedin.com",
          "LinkedIn.com", "facebook.com", "example.com"}

Paths == {<<>>, <<"amy">>, <<"Amy">>, <<"foo">>, <<"a.b">>, <<"a_b">>,
          <<"status?x">>, <<"profile.php?id=123">>, <<"amy", "status", "1">>,
          <<"in", "amy">>, <<"IN", "amy">>, <<"in", "jane-doe", "">>}

\* The URLs detect_platform is called on.
DetectUrls == {Url(h, p) : h \in Hosts, p \in Paths}

\* The URLs the lists handed to route_urls are made of.
RouteUrls ==
    {Url("x.com", <<"foo">>), Url("linkedin.com", <<"in", "jane-doe", "">>),
     Url("twitter.com", <<"amy">>), Url("instagram.com", <<"a.b">>),
     Url("facebook.com", <<"amy">>), Url("example.com", <<"amy">>),
     Url("linkedin.com", <<"amy">>), Url("x.com", <<"status?x">>)}

\* The usernames the adapters are called on.
CallUsernames == {"amy", "bob", "Bob", "ghost", "slow", "weird",
                  "zuck", "Zuck", "elonmusk", "finkd", "busy", "amy.lee"}

RouterCalls ==
    {[fn |-> "detect_platform", arg |-> u] : u \in DetectUrls}
    \cup {[fn |-> "route_urls", arg |-> l] : l \in SeqsUpTo(RouteUrls, MaxCallLen)}

SingleAdapters == {"twitter", "instagram", "linkedin", "facebook"}

AdapterCalls ==
    {[fn |-> "scrape_platform", arg |-> <<p, u>>] :
        p \in SingleAdapters, u \in CallUsernames}
    \cup {[fn |-> f, arg |-> l] :
             f \in {"batch_scrape_twitter", "batch_scrape_instagram",
                    "batch_scrape_facebook"},
             l \in SeqsUpTo(CallUsernames, MaxCallLen)}

\* The payloads aggregate is handed for a platform: with data, with no field
\* a normaliser reads, and empty.
SamplePayloads(platform) ==
    {Payload("item", platform, "amy",
             CASE platform = "twitter" -> {"text"}
               [] platform = "instagram" -> {"fullName", "biography"}
               [] platform = "linkedin" -> {"firstName", "headline"}
               [] platform = "facebook" -> {"name", "about"},
             <<>>),
     Payload("batch", platform, "", {}, <<>>),
     EmptyPayload}

\* The dictionaries aggregate is called on: any platforms, in any key order.
AggregateArgs ==
    {d \in SeqsUpTo(UNION {{<<p, v>> : v \in SamplePayloads(p)} : p \in SingleAdapters}, 4) :
        \A i, j \in 1..Len(d) : d[i][1] = d[j][1] => i = j}

AggregateCalls == {[fn |-> "aggregate", arg |-> d] : d \in AggregateArgs}

\* The orders in which n futures can complete.
Orders(n) == {o \in [1..n -> 1..n] : \A i, j \in 1..n : o[i] = o[j] => i = j}

(***************************************************************************)
(* PersonaProfiler.generate_persona.  The LLM is outside the program: what *)
(* the chat completion does is an input.  A response's content is a        *)
(* sequence of tokens, a token being a markdown fence or a piece of text;  *)
(* a Python value is a record tagged with its type.  The fence of three   *)
(* backquotes is written ~~~ here.                                         *)
(***************************************************************************)
PyNone == [type |-> "null"]
PyStr(s) == [type |-> "string", s |-> s]
PyList(items) == [type |-> "array", items |-> items]
PyDict(fields) == [type |-> "object", fields |-> fields]
\* f"You are {target_name}." and the like
FString(template, target_name) == [type |-> "fstring", template |-> template, arg |-> target_name]

FullPersonaObject ==
    PyDict(<<
        <<"name", PyStr("Jane Doe")>>,
        <<"speech_patterns", PyDict(<< <<"vocabulary", PyList(<<PyStr("literally")>>)>>,
                                       <<"sentence_structure", PyStr("short")>>,
                                       <<"tone", PyStr("dry")>> >>)>>,
        <<"psychological_insecurities", PyList(<<PyStr("deadlines")>>)>>,
        <<"worldview", PyDict(<< <<"core_beliefs", PyList(<<PyStr("hustle")>>)>>,
                                 <<"contradictions", PyList(<<PyStr("naps")>>)>> >>)>>,
        <<"attack_vectors", PyList(<<PyStr("typos")>>)>>,
        <<"gender", PyStr("female")>>,
        <<"system_prompt", PyStr("You are Jane Doe.")>> >>)

\* The JSON texts a response may carry, and the value json.loads gives each.
JsonTexts ==
    {"{full}", "{}", "{name:null}", "{speech_patterns:null}", "{worldview:text}",
     "[{full}]", "[]", "[null]", "null", "text"}

JsonValue(text) ==
    CASE text = "{full}" -> FullPersonaObject
      [] text = "{}" -> PyDict(<<>>)
      [] text = "{name:null}" -> PyDict(<< <<"name", PyNone>> >>)
      [] text = "{speech_patterns:null}" -> PyDict(<< <<"speech_patterns", PyNone>> >>)
      [] text = "{worldview:text}" -> PyDict(<< <<"worldview", PyStr("optimist")>> >>)
      [] text = "[{full}]" -> PyList(<<FullPersonaObject>>)
      [] text = "[]" -> PyList(<<>>)
      [] text = "[null]" -> PyList(<<PyNone>>)
      [] text = "null" -> PyNone
      [] text = "text" -> PyStr("hello")

\* json.loads: one JSON text and nothing else, or JSONDecodeError.
json_loads(tokens) ==
    IF Len(tokens) = 1 /\ tokens[1] \in JsonTexts THEN Returns(JsonValue(tokens[1])) ELSE Raises

IsFence(token) == token \in {"~~~json", "~~~"}

\* content.split(fence)[1]: what follows the first occurrence of the fence,
\* up to its next occurrence.
RECURSIVE UpTo(_, _)
UpTo(tokens, stop) ==
    IF tokens = <<>> \/ tokens[1] \in stop THEN <<>>
    ELSE <<tokens[1]>> \o UpTo(Tail(tokens), stop)

RECURSIVE AfterFirst(_, _)
AfterFirst(tokens, fence) ==
    IF tokens = <<>> THEN <<>>
    ELSE IF tokens[1] = fence THEN Tail(tokens)
    ELSE AfterFirst(Tail(tokens), fence)

\* "Clean markdown code blocks if present": "~~~" is also the head of
\* "~~~json", so the inner split stops at either fence.
StripFences(tokens) ==
    IF \E i \in 1..Len(tokens) : tokens[i] = "~~~json"
    THEN UpTo(AfterFirst(tokens, "~~~json"), {"~~~json", "~~~"})
    ELSE IF \E i \in 1..Len(tokens) : tokens[i] = "~~~"
    THEN UpTo(AfterFirst(tokens, "~~~"), {"~~~"})
    ELSE tokens

\* d.get(k, default) of something that may not be a dict: AttributeError.
PyGet(d, k, default) ==
    IF d.type = "object" THEN Returns(DictGetOr(d.fields, k, default)) ELSE Raises

FighterPersona(name, vocabulary, sentence_structure, tone, psychological_insecurities, core_beliefs, contradictions, attack_vectors, gender, system_prompt) ==
    [name |-> name,
     speech_patterns |-> [vocabulary |-> vocabulary,
                          sentence_structure |-> sentence_structure,
                          tone |-> tone],
     psychological_insecurities |-> psychological_insecurities,
     worldview |-> [core_beliefs |-> core_beliefs, contradictions |-> contradictions],
     attack_vectors |-> attack_vectors,
     gender |-> gender,
     system_prompt |-> system_prompt]

FallbackPersona(target_name) ==
    FighterPersona(PyStr(target_name),
                   PyList(<<PyStr("generic")>>), PyStr("standard"), PyStr("neutral"),
                   PyList(<<PyStr("Unknown weaknesses")>>),
                   PyList(<<PyStr("Unknown beliefs")>>),
                   PyList(<<PyStr("Unknown contradictions")>>),
                   PyList(<<PyStr("No specific attack vectors found")>>),
                   PyStr("unknown"),
                   FString("You are {}. You are a generic roast fighter.", target_name))

\* "Parse into structured dataclass"
PersonaFrom(data, target_name) ==
    IF data.type # "object" THEN Raises
    ELSE LET speech_patterns == DictGetOr(data.fields, "speech_patterns", PyDict(<<>>))
             worldview == DictGetOr(data.fields, "worldview", PyDict(<<>>))
         IN  IF speech_patterns.type # "object" \/ worldview.type # "object" THEN Raises
             ELSE Returns(FighterPersona(
                      DictGetOr(data.fields, "name", PyStr(target_name)),
                      PyGet(speech_patterns, "vocabulary", PyList(<<>>)).value,
                      PyGet(speech_patterns, "sentence_structure", PyStr("")).value,
                      PyGet(speech_patterns, "tone", PyStr("")).value,
                      DictGetOr(data.fields, "psychological_insecurities", PyList(<<>>)),
                      PyGet(worldview, "core_beliefs", PyList(<<>>)).value,
                      PyGet(worldview, "contradictions", PyList(<<>>)).value,
                      DictGetOr(data.fields, "attack_vectors", PyList(<<>>)),
                      DictGetOr(data.fields, "gender", PyStr("unknown")),
                      DictGetOr(data.fields, "system_prompt", FString("You are {}.", target_name))))

\* The body of the try block: the completion, the fences, json.loads, the
\* list case and the dataclass.
PersonaBody(target_name, llm) ==
    IF llm.kind = "raises" THEN Raises
    ELSE IF llm.kind = "none" THEN Raises
    ELSE LET loaded == json_loads(StripFences(llm.tokens))
         IN  IF loaded.raised THEN Raises
             ELSE IF loaded.value.type = "array"
             THEN IF Len(loaded.value.items) > 0 /\ loaded.value.items[1].type = "object"
                  THEN PersonaFrom(loaded.value.items[1], target_name)
                  ELSE Raises
             ELSE PersonaFrom(loaded.value, target_name)

\* The try block without its except clause.
PersonaUnhandled(aggregated_data, target_name, llm) == PersonaBody(target_name, llm)

generate_persona(aggregated_data, target_name, llm) ==
    TryExcept(PersonaBody(target_name, llm), FallbackPersona(target_name))

\* The prompt is the one upstream call, whatever the corpus.
generate_persona_calls(aggregated_data, target_name) == <<Call("openrouter", <<target_name>>)>>

LlmResponses ==
    {[kind |-> "raises", tokens |-> <<>>], [kind |-> "none", tokens |-> <<>>]}
    \cup {[kind |-> "text", tokens |-> t] :
            t \in {<<text>> : text \in JsonTexts}
                  \cup {<<>>, <<"prose">>, <<"prose", "{full}">>,
                        <<"~~~json", "{full}", "~~~">>, <<"~~~", "{full}", "~~~">>,
                        <<"prose", "~~~json", "{}", "~~~", "prose">>,
                        <<"~~~json", "{full}">>, <<"~~~json", "prose", "~~~">>,
                        <<"~~~", "prose", "{full}", "~~~">>}}

PersonaCorpora ==
    {aggregate(d) : d \in {a \in AggregateArgs : Len(a) <= 1}}

TargetNames == {"@amy", "Digital Twin"}

PersonaCalls ==
    {[fn |-> "generate_persona", arg |-> <<c, n, r>>] :
        c \in PersonaCorpora, n \in TargetNames, r \in LlmResponses}

(***************************************************************************)
(* services.py JudgeService.judge_roast and main.py judge_turn.  A JSON    *)
(* number is PyInt(n); a key the object lacks is PyAbsent.                 *)
(***************************************************************************)
PyInt(n) == [type |-> "number", n |-> n]
PyAbsent == [type |-> "absent"]

\* int(v): a number, or a string of digits; int(None) and int("high") raise.
NumericStrings == {<<"95", 95>>, <<"80", 80>>}

PyIntOf(v) ==
    IF v.type = "number" THEN Returns(v.n)
    ELSE IF v.type = "string" /\ \E p \in NumericStrings : p[1] = v.s
    THEN Returns((CHOOSE p \in NumericStrings : p[1] = v.s)[2])
    ELSE Raises

\* d.get(k, default) of a field that may be missing
GetOr(v, default) == IF v = PyAbsent THEN default ELSE v

\* the dictionary judge_roast returns when anything raised
JudgeRoastFallback ==
    [damage |-> PyInt(50), specificity |-> PyInt(50), creativity |-> PyInt(50),
     accuracy |-> PyInt(50)]

\* int(specificity * 0.3 + creativity * 0.3 + accuracy * 0.4): arithmetic on
\* anything but numbers raises.
WeightedDamage(data) ==
    LET specificity == GetOr(data.specificity, PyInt(50))
        creativity == GetOr(data.creativity, PyInt(50))
        accuracy == GetOr(data.accuracy, PyInt(50))
    IN  IF \A v \in {specificity, creativity, accuracy} : v.type = "number"
        THEN Returns(PyInt((3 * specificity.n + 3 * creativity.n + 4 * accuracy.n) \div 10))
        ELSE Raises

\* llm is what the chat completion gave: kind "raises" (the call or
\* json.loads raised), "array" (JSON that is no object, so data.get raises)
\* or "object" with the fields of data.
judge_roast(llm) ==
    IF llm.kind # "object" THEN JudgeRoastFallback
    ELSE LET data == llm.data
         IN  IF data.is_repetition
             THEN [damage |-> PyInt(0), specificity |-> data.specificity,
                   creativity |-> data.creativity, accuracy |-> data.accuracy]
             ELSE IF data.damage = PyAbsent
             THEN IF WeightedDamage(data).raised THEN JudgeRoastFallback
                  ELSE [damage |-> WeightedDamage(data).value,
                        specificity |-> data.specificity,
                        creativity |-> data.creativity, accuracy |-> data.accuracy]
             ELSE [damage |-> data.damage, specificity |-> data.specificity,
                   creativity |-> data.creativity, accuracy |-> data.accuracy]

CriticalDamage == 80

\* JudgeResponse(...): pydantic takes an int field from a number or a string
\* of digits and raises on anything else.
JudgeResponse(damage, is_critical, specificity, creativity, accuracy) ==
    IF \A v \in {specificity, creativity, accuracy} : ~PyIntOf(v).raised
    THEN Returns([damage |-> damage, is_critical |-> is_critical,
                  specificity |-> PyIntOf(specificity).value,
                  creativity |-> PyIntOf(creativity).value,
                  accuracy |-> PyIntOf(accuracy).value])
    ELSE Raises

JudgeErrorResponse ==
    [damage |-> 10, is_critical |-> FALSE, specificity |-> 0, creativity |-> 0,
     accuracy |-> 0]

\* q.enqueue(generate_background_video, prompt, req.match_id) returns the job
\* at once, still queued; it raises when Redis cannot be reached.
Enqueue(queue_up, match_id) ==
    IF queue_up
    THEN Returns(<<[func |-> "generate_background_video",
                    args |-> <<"Burning dojo", match_id>>, status |-> "queued"]>>)
    ELSE Raises

\* judge_turn gives [response, enqueued]: the response and the jobs the
\* request left in the queue.
judge_turn(match_id, llm, queue_up) ==
    LET judge_result == judge_roast(llm)
        damage == PyIntOf(GetOr(judge_result.damage, PyInt(50)))
        failed(jobs) == [response |-> JudgeErrorResponse, enqueued |-> jobs]
    IN  IF damage.raised THEN failed(<<>>)
        ELSE LET jobs == IF damage.value > CriticalDamage
                         THEN Enqueue(queue_up, match_id)
                         ELSE Returns(<<>>)
                 built == JudgeResponse(damage.value, damage.value > CriticalDamage,
                                        GetOr(judge_result.specificity, PyInt(0)),
                                        GetOr(judge_result.creativity, PyInt(0)),
                                        GetOr(judge_result.accuracy, PyInt(0)))
             IN  IF jobs.raised THEN failed(<<>>)
                 ELSE IF built.raised THEN failed(jobs.value)
                 ELSE [response |-> built.value, enqueued |-> jobs.value]

JudgedDamages ==
    {PyAbsent, PyNone, PyStr("high"), PyStr("95"), PyStr("80")}
    \cup {PyInt(n) : n \in {0, 50, 80, 81, 100}}

JudgedScores ==
    {[specificity |-> PyInt(50), creativity |-> PyInt(50), accuracy |-> PyInt(50)],
     [specificity |-> PyInt(90), creativity |-> PyInt(90), accuracy |-> PyInt(90)],
     [specificity |-> PyInt(80), creativity |-> PyInt(80), accuracy |-> PyInt(82)],
     [specificity |-> PyInt(81), creativity |-> PyInt(81), accuracy |-> PyInt(81)],
     [specificity |-> PyAbsent, creativity |-> PyInt(100), accuracy |-> PyInt(100)],
     [specificity |-> PyStr("high"), creativity |-> PyInt(90), accuracy |-> PyInt(90)],
     [specificity |-> PyStr("95"), creativity |-> PyInt(90), accuracy |-> PyNone]}

JudgeLlmResponses ==
    {[kind |-> "raises"], [kind |-> "array"]}
    \cup {[kind |-> "object",
           data |-> [is_repetition |-> r, damage |-> d, specificity |-> s.specificity,
                     creativity |-> s.creativity, accuracy |-> s.accuracy]] :
            r \in BOOLEAN, d \in JudgedDamages, s \in JudgedScores}

MatchIds == {"match-1", "match-2"}

JudgeCalls ==
    {[fn |-> "judge_turn", arg |-> <<m, l, up>>] :
        m \in MatchIds, l \in JudgeLlmResponses, up \in BOOLEAN}

\* A direct call and what it needs of the process: the router reads no
\* credential of the scrapers, nor do the profiler and the judge.
CallArrives(calls) ==
    /\ call \in calls
    /\ has_key \in BOOLEAN
    /\ has_token \in BOOLEAN
    /\ call.fn \in {"detect_platform", "route_urls", "aggregate", "generate_persona",
                   "judge_turn"}
          => (~has_key /\ ~has_token)
    /\ mode = "call"
    /\ fighter1_urls = <<>>
    /\ fighter2_urls = <<>>
    /\ pc = "call"
    /\ HandlerIdle

InitCalls ==
    CallArrives(RouterCalls \cup AdapterCalls \cup AggregateCalls \cup PersonaCalls
                \cup JudgeCalls)

\* The call returns value, having issued the upstream calls c.
Return(value, c) ==
    /\ pc' = "returned"
    /\ returned' = [value |-> value, calls |-> c]
    /\ UNCHANGED <<call, has_key, has_token, mode, fighter1_urls, fighter2_urls,
                   futures, collected, awaiting, tw_pending, tw_partial,
                   platform_data, detected_name, batch_results, split, response>>

CallDetectPlatform ==
    /\ pc = "call" /\ call.fn = "detect_platform"
    /\ Return(detect_platform(call.arg), <<>>)

CallRouteUrls ==
    /\ pc = "call" /\ call.fn = "route_urls"
    /\ Return(route_urls(call.arg), <<>>)

CallScrapePlatform ==
    /\ pc = "call" /\ call.fn = "scrape_platform"
    /\ Return(scrape_platform(call.arg[1], call.arg[2]),
              scrape_platform_calls(call.arg[1], call.arg[2]))

\* batch_scrape_twitter: the inner futures complete in any order.
CallBatchTwitter ==
    /\ pc = "call" /\ call.fn = "batch_scrape_twitter"
    /\ \E o \in Orders(Len(call.arg)) :
          Return(Returns(TwitterInOrder([i \in 1..Len(call.arg) |-> call.arg[o[i]]], <<>>)),
                 batch_scrape_twitter_calls(call.arg))

CallBatchInstagram ==
    /\ pc = "call" /\ call.fn = "batch_scrape_instagram"
    /\ Return(batch_scrape_instagram(call.arg), batch_scrape_instagram_calls(call.arg))

CallBatchFacebook ==
    /\ pc = "call" /\ call.fn = "batch_scrape_facebook"
    /\ Return(batch_scrape_facebook(call.arg), batch_scrape_facebook_calls(call.arg))

CallAggregate ==
    /\ pc = "call" /\ call.fn = "aggregate"
    /\ Return(aggregate(call.arg), <<>>)

CallGeneratePersona ==
    /\ pc = "call" /\ call.fn = "generate_persona"
    /\ Return(generate_persona(call.arg[1], call.arg[2], call.arg[3]),
              generate_persona_calls(call.arg[1], call.arg[2]))

CallJudgeTurn ==
    /\ pc = "call" /\ call.fn = "judge_turn"
    /\ Return(judge_turn(call.arg[1], call.arg[2], call.arg[3]), <<>>)

NextCalls ==
    \/ CallAggregate
    \/ CallJudgeTurn
    \/ CallGeneratePersona
    \/ CallDetectPlatform
    \/ CallRouteUrls
    \/ CallScrapePlatform
    \/ CallBatchTwitter
    \/ CallBatchInstagram
    \/ CallBatchFacebook

SpecCalls == InitCalls /\ [][NextCalls]_vars

----------------------------------------------------------------------------
(***************************************************************************)
(* Vocabulary of the properties.                                           *)
(***************************************************************************)
Entities == IF mode = "single" THEN {1} ELSE {1, 2}

EntityUrls(e) == IF e = 1 THEN fighter1_urls ELSE fighter2_urls

\* The identifiers the Router assigned to entity e: <<platform, username>>.
EntityIds(e) == ScrapeTasks(route_urls(EntityUrls(e)))

EntityData(e) ==
    IF mode = "single" THEN platform_data
    ELSE IF e = 1 THEN split.f1_data ELSE split.f2_data

EntityName(e) ==
    IF mode = "single" THEN detected_name
    ELSE IF e = 1 THEN split.f1_name ELSE split.f2_name

\* The fan-in is over: the handler is at, or past, its aggregate step.
CollectionOver ==
    \/ mode = "single" /\ pc \in {"aggregate", "done"}
    \/ mode = "batch" /\ pc \in {"personas", "done"}

\* The request is over: it returned, or an exception left the handler.
RequestOver == pc \in {"done", "raised"}

PlatformIndex(platform) == CHOOSE k \in 1..4 : BatchPlatforms[k] = platform

\* A dictionary as a mapping, its insertion order forgotten.
AsMap(d) == {d[i] : i \in 1..Len(d)}

\* The payload the fan-out obtained for identifier id of entity e (the empty
\* payload when it obtained none).
Obtained(e, j) ==
    LET id == EntityIds(e)[j]
    IN  IF mode = "single"
        THEN IF futures[j].result.raised THEN EmptyPayload ELSE futures[j].result.value
        ELSE DictGetOr(batch_results[PlatformIndex(id[1])], id[2], EmptyPayload)

\* data holds payload under platform.
Holds(data, platform, payload) ==
    DictHas(data, platform) /\ DictGet(data, platform) = payload

(* C1: once collection has finished, every identifier the Router assigned to
   an entity is represented in that entity's results: the payload obtained
   for it is in the entity's payload map (an identifier with no payload is
   represented by its absence), and is not dropped or overwritten by another
   identifier of the same entity. *)
C1_EveryIdentifierRepresented ==
    CollectionOver =>
        \A e \in Entities : \A j \in 1..Len(EntityIds(e)) :
            Truthy(Obtained(e, j)) =>
                Holds(EntityData(e), EntityIds(e)[j][1], Obtained(e, j))

\* The futures that ended without a payload: raised, or returned nothing.
FailedTasks ==
    {i \in DOMAIN futures :
        /\ futures[i].state = "done"
        /\ \/ futures[i].result.raised
           \/ mode = "single" /\ ~Truthy(futures[i].result.value)
           \/ mode = "batch" /\ futures[i].result.value = <<>>}

\* The future that serves identifier j of entity e.
TaskOf(e, j) == IF mode = "single" THEN j ELSE PlatformIndex(EntityIds(e)[j][1])

(* C2: when exactly one task of the fan-out fails, the request does not
   raise to its caller and the payload of every other task is still
   delivered to its entity unchanged. *)
C2_OneFailureIsolated ==
    (RequestOver /\ Cardinality(FailedTasks) = 1) =>
        /\ pc # "raised"
        /\ \A e \in Entities : \A j \in 1..Len(EntityIds(e)) :
              (TaskOf(e, j) \notin FailedTasks /\ Truthy(Obtained(e, j))) =>
                  Holds(EntityData(e), EntityIds(e)[j][1], Obtained(e, j))

(* C3: in create_fighters_batch, when both fighters cite the same identifier
   on the same platform and the upstream returned data for it, both
   fighters' payload maps hold that platform's payload. *)
C3_SharedIdentifierKeptForBoth ==
    (mode = "batch" /\ CollectionOver) =>
        \A j1 \in 1..Len(EntityIds(1)) : \A j2 \in 1..Len(EntityIds(2)) :
            (EntityIds(1)[j1] = EntityIds(2)[j2] /\ Truthy(Obtained(1, j1))) =>
                /\ DictHas(split.f1_data, EntityIds(1)[j1][1])
                /\ DictHas(split.f2_data, EntityIds(2)[j2][1])

\* The source call for identifier id fails upstream: no record, a timeout or
\* quota error, a malformed record, or no credential for the source.
FailsUpstream(id) ==
    /\ ~HasFallback(id[2], id[1])
    /\ \/ UpstreamMissing(id[2]) \/ UpstreamTimesOut(id[2]) \/ UpstreamMalformed(id[2])
       \/ id[1] = "twitter" /\ ~has_key
       \/ id[1] # "twitter" /\ ~has_token

AllSourcesFail(e) ==
    /\ EntityIds(e) # <<>>
    /\ \A j \in 1..Len(EntityIds(e)) : FailsUpstream(EntityIds(e)[j])

(* C4: if every source call of an entity fails, no exception escapes and the
   entity's corpus is the sentinel; in a batch where entity 1's only
   identifier is an Instagram handle that fails and entity 2's only
   identifier is one that succeeds, entity 1's corpus is the sentinel and
   entity 2's is its normalised Instagram section. *)
C4_AllSourcesFailGivesSentinel ==
    RequestOver =>
        /\ \A e \in Entities :
              AllSourcesFail(e) => (pc = "done" /\ response[e].context = <<Sentinel>>)
        /\ ( /\ mode = "batch"
             /\ Len(EntityIds(1)) = 1 /\ Len(EntityIds(2)) = 1
             /\ EntityIds(1)[1][1] = "instagram" /\ EntityIds(2)[1][1] = "instagram"
             /\ FailsUpstream(EntityIds(1)[1]) /\ ~FailsUpstream(EntityIds(2)[1]) )
           => /\ pc = "done"
              /\ response[1].context = <<Sentinel>>
              /\ response[2].context = <<normalize_instagram(Obtained(2, 1))>>

(* C5: the fan-out never returns while a dispatched task is still running:
   the handler is at its split or aggregate step, or past it, or has raised,
   only when every submitted future (and every future of the nested twitter
   pool) has reached a terminal state. *)
C5_NoReturnWhileTaskRuns ==
    pc \in {"split", "personas", "aggregate", "done", "raised"} =>
        /\ \A i \in DOMAIN futures : futures[i].state = "done"
        /\ tw_pending = {}

\* A fan-out of several tasks, one failed and one not, has reached the
\* split or aggregate step.
C5_Witness ==
    /\ pc \in {"split", "aggregate"}
    /\ FailedTasks # {}
    /\ DOMAIN futures \ FailedTasks # {}

\* The fan-in with its futures completing in submission order.
RECURSIVE CollectInOrder(_, _)
CollectInOrder(tasks, data_name) ==
    IF tasks = <<>> THEN data_name
    ELSE CollectInOrder(Tail(tasks),
             CollectOne(data_name, Head(tasks),
                        scrape_platform(Head(tasks)[1], Head(tasks)[2])))

SingleInOrder ==
    CollectInOrder(ScrapeTasks(route_urls(fighter1_urls)),
                   [platform_data |-> <<>>, detected_name |-> DefaultName("Digital Twin")])

BatchInOrder ==
    LET f1_routed == route_urls(fighter1_urls)
        f2_routed == route_urls(fighter2_urls)
    IN  SplitResults(f1_routed, f2_routed, batch_results[1], batch_results[2],
                     TwitterInOrder(BatchArgs(f1_routed, f2_routed, 3), <<>>),
                     batch_results[4])

(* C6: for fixed URLs and upstream responses, the per-entity payload map is
   the same under every completion order of the concurrent tasks: it is the
   map obtained when the tasks complete in submission order. *)
C6_PayloadMapOrderIndependent ==
    CollectionOver =>
        IF mode = "single"
        THEN AsMap(platform_data) = AsMap(SingleInOrder.platform_data)
        ELSE /\ AsMap(split.f1_data) = AsMap(BatchInOrder.f1_data)
             /\ AsMap(split.f2_data) = AsMap(BatchInOrder.f2_data)

(* C7: for fixed URLs and upstream responses, the display name of an entity
   is the same under every completion order of the concurrent tasks: it is
   the name obtained when the tasks complete in submission order. *)
C7_DisplayNameOrderIndependent ==
    CollectionOver =>
        IF mode = "single"
        THEN detected_name = SingleInOrder.detected_name
        ELSE /\ split.f1_name = BatchInOrder.f1_name
             /\ split.f2_name = BatchInOrder.f2_name

(* C8: every single-item adapter entry point (get_user_profile,
   scrape_twitter, scrape_instagram, scrape_linkedin, scrape_facebook), on
   an upstream error (not found, timeout, malformed response, missing
   credential), returns an empty payload, which the collector treats as no
   data, and does not raise to its caller. *)
C8_AdaptersFailSoft ==
    mode = "single" =>
        \A i \in DOMAIN futures :
            (futures[i].state = "done" /\ FailsUpstream(futures[i].task)) =>
                /\ ~futures[i].result.raised
                /\ ~Truthy(futures[i].result.value)
                /\ futures[i].task[1] = "twitter" =>
                      get_user_profile(futures[i].task[2]) = Returns(EmptyPayload)

\* The items of the upstream response to the batch call of future k.
UpstreamItems(k) ==
    LET usernames == futures[k].task
        remaining == SelectSeq(usernames, LAMBDA u : ~HasFallback(u, "instagram"))
        run == IF k = 1 THEN InstagramActor(remaining) ELSE FacebookPagesActor(usernames)
    IN  IF ~has_token \/ run.raised \/ (k = 1 /\ remaining = <<>>) THEN {}
        ELSE {run.value[i] : i \in 1..Len(run.value)}

\* The upstream response holds an item whose echoed key matches username u.
MatchedUpstream(k, u) ==
    \E item \in UpstreamItems(k) :
        IF k = 1
        THEN item.user # Null /\ lower(item.user) = lower(u)
        ELSE /\ item.pageName # Null
             /\ \/ lower(item.pageName) = lower(u)
                \/ IsSubstring(lower(u), lower(item.facebookUrl))

(* C9: the mapping a batch fetch (batch_scrape_instagram,
   batch_scrape_facebook) returns has as keys exactly the requested
   identifiers that have a canned payload or a matching item in the
   upstream response; an identifier with no matching item is not a key. *)
C9_BatchKeysAreMatchedIdentifiers ==
    mode = "batch" =>
        \A k \in {1, 2} \cap DOMAIN futures :
            (futures[k].state = "done" /\ ~futures[k].result.raised) =>
                DictKeys(futures[k].result.value) =
                    {futures[k].task[i] : i \in
                        {j \in 1..Len(futures[k].task) :
                            \/ k = 1 /\ HasFallback(futures[k].task[j], "instagram")
                            \/ MatchedUpstream(k, futures[k].task[j])}}

(* C10 as stated: a batch fetch on Instagram or Facebook over a non-empty
   list of identifiers issues exactly one upstream call. *)
C10_ExactlyOneUpstreamCall ==
    mode = "batch" =>
        \A k \in {1, 2} \cap DOMAIN futures :
            futures[k].state = "done" => Len(futures[k].calls) = 1

\* The actors a batch fetch runs, and the identifiers it sends upstream.
BatchActors(k) == IF k = 1 THEN {"instagram"} ELSE {"facebook_pages", "facebook_posts"}

SentUpstream(k) ==
    IF k = 1
    THEN SelectSeq(futures[k].task, LAMBDA u : ~HasFallback(u, "instagram"))
    ELSE futures[k].task

(* C10 amended: a batch fetch on Instagram or Facebook issues at most one
   call per upstream actor, each for the whole group and never one per
   identifier: with a token, exactly one call to each of its actors naming
   every identifier that has no canned payload (none when all are canned);
   without a token, no call.  The keys of its result are requested
   identifiers. *)
C10_OneCallPerActor ==
    mode = "batch" =>
        \A k \in {1, 2} \cap DOMAIN futures :
            futures[k].state = "done" =>
                LET c == futures[k].calls
                    made(a) == {i \in 1..Len(c) : c[i].api = a}
                IN  /\ \A i \in 1..Len(c) :
                          c[i].api \in BatchActors(k) /\ c[i].ids = SentUpstream(k)
                    /\ \A a \in BatchActors(k) :
                          Cardinality(made(a)) =
                              IF has_token /\ SentUpstream(k) # <<>> THEN 1 ELSE 0
                    /\ ~futures[k].result.raised =>
                          DictKeys(futures[k].result.value) \subseteq
                              {futures[k].task[i] : i \in 1..Len(futures[k].task)}

\* A batch fetch for two identifiers ended having made one call per actor
\* that names both.
C10_Witness ==
    /\ mode = "batch"
    /\ \E k \in {1, 2} \cap DOMAIN futures :
          /\ futures[k].state = "done"
          /\ Len(futures[k].task) = 2
          /\ futures[k].calls # <<>>
          /\ Len(futures[k].calls[1].ids) = 2

\* The direct call has returned.
Returned == mode = "call" /\ pc = "returned"

\* The platform a direct adapter call fetches from ("" for a router call).
CallPlatform ==
    CASE call.fn = "scrape_platform" -> call.arg[1]
      [] call.fn = "batch_scrape_twitter" -> "twitter"
      [] call.fn = "batch_scrape_instagram" -> "instagram"
      [] call.fn = "batch_scrape_facebook" -> "facebook"
      [] OTHER -> ""

\* The usernames a direct adapter call is handed.
CallArgs ==
    CASE call.fn = "scrape_platform" -> <<call.arg[2]>>
      [] call.fn \in {"batch_scrape_twitter", "batch_scrape_instagram",
                      "batch_scrape_facebook"} -> call.arg
      [] OTHER -> <<>>

\* The payload a direct adapter call returned for username u.
ReturnedFor(u) ==
    IF returned.value.raised THEN EmptyPayload
    ELSE IF call.fn = "scrape_platform" THEN returned.value.value
    ELSE DictGetOr(returned.value.value, u, EmptyPayload)

\* The identifiers named in the upstream calls the direct call issued.
NamedUpstream ==
    UNION {{returned.calls[i].ids[j] : j \in 1..Len(returned.calls[i].ids)} :
              i \in 1..Len(returned.calls)}

(* C11: for an identifier on the canned-payload allow-list of twitter or
   instagram, the single entry point and the batch entry point of that
   source return the canned payload and issue no upstream call naming the
   identifier, with or without a credential configured. *)
C11_CannedBypassesUpstream ==
    (Returned /\ CallPlatform \in {"twitter", "instagram"}) =>
        \A i \in 1..Len(CallArgs) :
            (lower(CallArgs[i]) \in FALLBACK_KEYS
             /\ FALLBACK_DATA(lower(CallArgs[i])).platform = CallPlatform) =>
                /\ ~returned.value.raised
                /\ ReturnedFor(CallArgs[i]) = FALLBACK_DATA(lower(CallArgs[i])).data
                /\ ReturnedFor(CallArgs[i]).kind = "canned"
                /\ CallArgs[i] \notin NamedUpstream

\* A batch call for a canned and an ordinary handle returned, having called
\* upstream for the ordinary one.
C11_Witness ==
    /\ Returned
    /\ call.fn = "batch_scrape_instagram"
    /\ call.arg = <<"bob", "Zuck">>
    /\ has_token
    /\ returned.calls # <<>>

\* The patterns that match url, by their place in twitter, instagram,
\* linkedin, facebook.
Matching(url) ==
    {i \in 1..4 :
        PatternMatch(<<"twitter", "instagram", "linkedin", "facebook">>[i], url) # ""}

\* The URLs of a list that route to platform, in input order.
RoutedTo(urls, platform) ==
    SelectSeq(urls, LAMBDA u : detect_platform(u).platform = platform)

(* C12: detect_platform returns the result of the first matcher that
   matches, in the order twitter, instagram, linkedin, facebook ("unknown"
   when none does), and route_urls returns the grouping its input list
   determines: every URL under its platform, in input order; the list
   x.com/foo, www.linkedin.com/in/jane-doe/ gives twitter -> "foo" and
   linkedin -> "jane-doe". *)
C12_FirstMatchInFixedOrder ==
    Returned =>
        /\ call.fn = "detect_platform" =>
              IF Matching(call.arg) = {}
              THEN returned.value.platform = "unknown" /\ returned.value.username = ""
              ELSE LET first == CHOOSE i \in Matching(call.arg) :
                                    \A j \in Matching(call.arg) : i <= j
                       name == <<"twitter", "instagram", "linkedin", "facebook">>[first]
                   IN  /\ returned.value.platform = name
                       /\ returned.value.username = PatternMatch(name, call.arg)
        /\ call.fn = "route_urls" =>
              /\ returned.value = route_urls(call.arg)
              /\ \A i \in 1..Len(returned.value) :
                    LET group == returned.value[i]
                    IN  /\ group[2] # <<>>
                        /\ [j \in 1..Len(group[2]) |-> group[2][j].original_url]
                              = RoutedTo(call.arg, group[1])
                        /\ \A j \in 1..Len(group[2]) : group[2][j].platform = group[1]
              /\ \A i \in 1..Len(call.arg) :
                    DictHas(returned.value, detect_platform(call.arg[i]).platform)
              /\ call.arg = <<Url("x.com", <<"foo">>),
                              Url("linkedin.com", <<"in", "jane-doe", "">>)>> =>
                    /\ DictKeys(returned.value) = {"twitter", "linkedin"}
                    /\ DictGet(returned.value, "twitter")[1].username = "foo"
                    /\ DictGet(returned.value, "linkedin")[1].username = "jane-doe"

\* route_urls returned for the list x.com/foo, www.linkedin.com/in/jane-doe/.
C12_Witness ==
    /\ Returned
    /\ call.fn = "route_urls"
    /\ call.arg = <<Url("x.com", <<"foo">>), Url("linkedin.com", <<"in", "jane-doe", "">>)>>
    /\ Len(returned.value) = 2

\* u and v are the same URL up to letter case.
SameIgnoringCase(u, v) ==
    /\ lower(u.host) = lower(v.host)
    /\ Len(u.path) = Len(v.path)
    /\ \A i \in 1..Len(u.path) : lower(u.path[i]) = lower(v.path[i])

\* Trailing path suffixes: "/", "/posts", "/status/1".
PathSuffixes == {<<"">>, <<"posts">>, <<"status", "1">>}

WithSuffix(u, suffix) == [u EXCEPT !.path = @ \o suffix]

(* C13: for a URL that detect_platform routes to a known platform, the same
   URL in another letter case, and the URL with a trailing path suffix
   appended, are routed to the same platform with the same username. *)
C13_CaseAndSuffixInvariant ==
    (Returned /\ call.fn = "detect_platform" /\ returned.value.platform # "unknown") =>
        /\ \A v \in DetectUrls :
              SameIgnoringCase(call.arg, v) =>
                  /\ detect_platform(v).platform = returned.value.platform
                  /\ detect_platform(v).username = returned.value.username
        /\ \A suffix \in PathSuffixes :
              /\ detect_platform(WithSuffix(call.arg, suffix)).platform
                    = returned.value.platform
              /\ detect_platform(WithSuffix(call.arg, suffix)).username
                    = returned.value.username

\* The URLs of a list that match no platform pattern, in input order.
UnknownUrls(urls) == SelectSeq(urls, LAMBDA u : Matching(u) = {})

\* The number of identifiers the fan-out has dispatched.
RECURSIVE Dispatched(_)
Dispatched(ks) ==
    IF ks = {} THEN 0
    ELSE LET k == CHOOSE x \in ks : TRUE
         IN  (IF mode = "single" THEN 1 ELSE Len(futures[k].task)) + Dispatched(ks \ {k})

(* C14: every input that matches no platform pattern is kept by route_urls
   under "unknown", and once the fan-out has been submitted no task or
   batch call exists for such an input: the dispatched identifiers are
   exactly the inputs that match a pattern, each on a known platform. *)
C14_UnknownKeptNeverDispatched ==
    /\ \A e \in Entities :
          LET routed == route_urls(EntityUrls(e))
              unknown == UnknownUrls(EntityUrls(e))
          IN  IF unknown = <<>> THEN ~DictHas(routed, "unknown")
              ELSE /\ DictHas(routed, "unknown")
                   /\ [j \in 1..Len(DictGet(routed, "unknown")) |->
                          DictGet(routed, "unknown")[j].original_url] = unknown
    /\ (mode \in {"single", "batch"} /\ pc # "start") =>
          /\ Dispatched(DOMAIN futures) =
                Len(fighter1_urls) + Len(fighter2_urls)
                - Len(UnknownUrls(fighter1_urls)) - Len(UnknownUrls(fighter2_urls))
          /\ mode = "single" =>
                \A i \in DOMAIN futures :
                    futures[i].task[1] \in {"twitter", "instagram", "linkedin", "facebook"}
          /\ mode = "batch" => DOMAIN futures \subseteq 1..4

\* A request with an unrecognised URL and a recognised one has been served.
C14_Witness ==
    /\ pc = "done"
    /\ \E e \in Entities : UnknownUrls(EntityUrls(e)) # <<>>
    /\ futures # <<>>

\* The platforms of a dictionary that hold data, in the order twitter,
\* instagram, linkedin, facebook.
PresentInFixedOrder(d) ==
    SelectSeq(<<"twitter", "instagram", "linkedin", "facebook">>,
              LAMBDA p : \E i \in 1..Len(d) : d[i][1] = p /\ d[i][2].kind # "empty")

\* A dictionary with its keys in the opposite order.
Reversed(d) == [i \in 1..Len(d) |-> d[Len(d) + 1 - i]]

(* C15: aggregate returns the sections of the present sources in the order
   twitter, instagram, linkedin, facebook, whatever the key order of its
   input; when no source is present it returns the sentinel; its output is
   never empty. *)
C15_AggregateFixedOrder ==
    (Returned /\ call.fn = "aggregate") =>
        LET present == PresentInFixedOrder(call.arg)
        IN  /\ returned.value # <<>>
            /\ present = <<>> => returned.value = <<Sentinel>>
            /\ present # <<>> =>
                  returned.value =
                      [i \in 1..Len(present) |->
                          normalize(present[i], DictGet(call.arg, present[i]))]
            /\ aggregate(Reversed(call.arg)) = returned.value

\* aggregate returned for a dictionary that holds facebook data before
\* twitter data.
C15_Witness ==
    /\ Returned /\ call.fn = "aggregate"
    /\ Len(call.arg) >= 2
    /\ call.arg[1][1] = "facebook" /\ Truthy(call.arg[1][2])
    /\ call.arg[2][1] = "twitter" /\ Truthy(call.arg[2][2])
    /\ returned.value[1].head \in {"TWITTER POSTS", "TWITTER PROFILE"}

(* C16: during one request the number of upstream calls in flight at the
   same time, those of the nested pools included, never exceeds the worker
   bound of the scheduler's pool (4). *)
C16_InFlightWithinWorkerBound == InFlightIn(DOMAIN futures) <= 4

(* C17: every adapter call reaches a terminal state and the request
   eventually returns (or raises), also when an upstream call is never
   answered: no future runs forever. *)
C17_RequestEventuallyReturns ==
    <>(pc \in {"done", "raised"} /\ \A i \in DOMAIN futures : futures[i].state = "done")

(* C18: with an empty identifier list nothing is dispatched and nothing is
   called upstream: create_fighters_batch submits no future for a platform
   that has no identifiers and its results for that platform stay empty, a
   request with no identifiers at all submits no future, and
   batch_scrape_twitter, batch_scrape_instagram and batch_scrape_facebook
   return the empty mapping for the empty list without any upstream call. *)
C18_EmptyListDispatchesNothing ==
    /\ (mode = "batch" /\ pc # "start") =>
          \A k \in 1..4 :
              BatchArgs(route_urls(fighter1_urls), route_urls(fighter2_urls), k) = <<>>
                  => (k \notin DOMAIN futures /\ batch_results[k] = <<>>)
    /\ (mode \in {"single", "batch"} /\ pc # "start"
        /\ \A e \in Entities : EntityIds(e) = <<>>) =>
          /\ futures = <<>>
          /\ platform_data = <<>> /\ split.f1_data = <<>> /\ split.f2_data = <<>>
    /\ batch_scrape_instagram(<<>>) = Returns(<<>>)
    /\ batch_scrape_instagram_calls(<<>>) = <<>>
    /\ batch_scrape_facebook(<<>>) = Returns(<<>>)
    /\ batch_scrape_facebook_calls(<<>>) = <<>>
    /\ TwitterInOrder(<<>>, <<>>) = <<>>
    /\ batch_scrape_twitter_calls(<<>>) = <<>>

\* A batch request with identifiers on one platform only has been served
\* with a token configured.
C18_Witness ==
    /\ mode = "batch" /\ pc = "done" /\ has_token
    /\ Cardinality(DOMAIN futures) = 1
    /\ \E k \in 1..4 : k \notin DOMAIN futures /\ batch_results[k] = <<>>

(* C19: PersonaProfiler.generate_persona never raises; when the LLM call
   fails or its response does not parse into the expected structure (no
   content, not one JSON document, a document that is neither an object nor
   a list headed by one, or an object whose speech_patterns or worldview is
   not an object) it returns the fallback persona, whose name is the
   target_name it was given; this holds for every corpus, the sentinel for
   "no data available" included. *)
ExpectedStructure(v) ==
    /\ v.type = "object"
    /\ \A section \in {"speech_patterns", "worldview"} :
          DictHas(v.fields, section) => DictGet(v.fields, section).type = "object"

CannotBeParsed(llm) ==
    \/ llm.kind # "text"
    \/ LET text == StripFences(llm.tokens)
       IN  \/ Len(text) # 1
           \/ text[1] \notin JsonTexts
           \/ LET v == JsonValue(text[1])
              IN  IF v.type = "array"
                  THEN v.items = <<>> \/ ~ExpectedStructure(v.items[1])
                  ELSE ~ExpectedStructure(v)

C19_PersonaNeverRaises ==
    (Returned /\ call.fn = "generate_persona") =>
        /\ ~returned.value.raised
        /\ CannotBeParsed(call.arg[3]) =>
              /\ returned.value.value = FallbackPersona(call.arg[2])
              /\ returned.value.value.name = PyStr(call.arg[2])

\* The profiler was given the sentinel corpus and the LLM answered in prose:
\* the fallback persona came back.
C19_Witness ==
    /\ Returned /\ call.fn = "generate_persona"
    /\ call.arg[1] = <<Sentinel>>
    /\ call.arg[3] = [kind |-> "text", tokens |-> <<"prose">>]
    /\ ~returned.value.raised
    /\ returned.value.value = FallbackPersona(call.arg[2])

(* C20: the display name of an entity is the human name extracted from the
   highest-priority source whose payload carries one, profile-identity
   sources (linkedin, instagram, facebook) before the feed-only source
   (twitter); the "@handle" placeholder is used only when no payload of the
   entity carries an extractable name. *)
NameFields == {"fullName", "firstName", "lastName", "name"}

CarriesName(data) == data.fields \cap NameFields # {}

NamedSources(e, sources) ==
    {i \in 1..Len(EntityData(e)) :
        EntityData(e)[i][1] \in sources /\ CarriesName(EntityData(e)[i][2])}

NameComesFrom(e, is) == \E i \in is : EntityName(e) = FullName(EntityData(e)[i][2])

C20_DisplayNameFromPrioritySource ==
    CollectionOver =>
        \A e \in Entities :
            IF NamedSources(e, {"linkedin", "instagram", "facebook"}) # {}
            THEN NameComesFrom(e, NamedSources(e, {"linkedin", "instagram", "facebook"}))
            ELSE NamedSources(e, {"twitter"}) # {}
                    => NameComesFrom(e, NamedSources(e, {"twitter"}))

(* C21: when no source of an entity yields a display name, also when every
   source call of the entity fails, the display name handed to the profiler
   is the placeholder "@<first identifier>", built from the first identifier
   the Router assigned to the entity; this for every entity that has at
   least one routed identifier. *)
NoSourceYieldsName(e) ==
    \A j \in 1..Len(EntityIds(e)) : ~CarriesName(Obtained(e, j))

C21_PlaceholderFromFirstIdentifier ==
    CollectionOver =>
        \A e \in Entities :
            (EntityIds(e) # <<>> /\ NoSourceYieldsName(e))
                => EntityName(e) = AtName(EntityIds(e)[1][2])

(* C22: within one entity identifiers are unique per (source, canonical
   value): when the URL list of an entity names the same profile twice, at
   most one scrape task is dispatched for it and at most one upstream
   request names it. *)
NoRepeat(seq) == \A i, j \in 1..Len(seq) : seq[i] = seq[j] => i = j

\* What the futures of a batch request were given on behalf of entity e:
\* fighter 1's identifiers come first in every argument list.
BatchPart(e, k) ==
    LET n1 == Len(RoutedUsernames(route_urls(fighter1_urls), BatchPlatforms[k]))
    IN  IF e = 1 THEN SubSeq(futures[k].task, 1, n1)
        ELSE SubSeq(futures[k].task, n1 + 1, Len(futures[k].task))

C22_OneTaskPerIdentifier ==
    /\ (mode = "single" /\ pc # "start") =>
          /\ NoRepeat([i \in 1..Len(futures) |-> futures[i].task])
          /\ \A i, j \in 1..Len(futures) :
                \A a \in 1..Len(futures[i].calls), b \in 1..Len(futures[j].calls) :
                    futures[i].calls[a] = futures[j].calls[b] => (i = j /\ a = b)
    /\ (mode = "batch" /\ pc # "start") =>
          \A e \in Entities : \A k \in DOMAIN futures : NoRepeat(BatchPart(e, k))

(* C23: the payload an adapter returns for one identifier never holds more
   than the fixed per-identifier maximum of items, 10 Instagram posts and 10
   Facebook posts, in the single entry points and in the batch entry points
   for every batch size. *)
PostsWithinMaximum(platform, payload) ==
    /\ platform = "instagram" => Len(payload.posts) <= MaxItemsInstagram
    /\ platform = "facebook" => Len(payload.posts) <= MaxItemsFacebookPosts

C23_ItemsWithinMaximum ==
    /\ (Returned /\ call.fn = "scrape_platform" /\ ~returned.value.raised) =>
          PostsWithinMaximum(call.arg[1], returned.value.value)
    /\ (Returned /\ call.fn \in {"batch_scrape_instagram", "batch_scrape_facebook"}
        /\ ~returned.value.raised) =>
          \A i \in 1..Len(returned.value.value) :
              PostsWithinMaximum(IF call.fn = "batch_scrape_instagram"
                                 THEN "instagram" ELSE "facebook",
                                 returned.value.value[i][2])

(* C24: ProfileAggregator.aggregate gives the same corpus for a payload map
   in which a source is absent and for the same map in which that source is
   present but empty (an empty payload, or a payload with no usable field,
   such as one holding only an empty list of posts); in particular, when all
   sources are absent or empty, the corpus is the global sentinel. *)
PresentButEmpty(payload) == payload.fields = {} /\ payload.posts = <<>>

\* The payload map with its empty sources left out.
WithoutEmpty(d) ==
    SelectSeq(d, LAMBDA entry : ~PresentButEmpty(entry[2]))

C24_AbsentAndEmptyAlike ==
    (Returned /\ call.fn = "aggregate") =>
        /\ returned.value = aggregate(WithoutEmpty(call.arg))
        /\ WithoutEmpty(call.arg) = <<>> => returned.value = <<Sentinel>>

(* C25: the payload map of an entity (platform_data, f1_data, f2_data) holds
   a source key only if some identifier of that entity on that source
   returned a real payload; a source whose fetch failed or returned nothing
   is left out of the map, never stored as null, as an error text or as an
   empty placeholder. *)
RealPayload(payload) ==
    /\ payload.kind \notin {"empty", "error"}
    /\ ~PresentButEmpty(payload)

C25_OnlyRealPayloadsStored ==
    CollectionOver =>
        \A e \in Entities : \A i \in 1..Len(EntityData(e)) :
            /\ RealPayload(EntityData(e)[i][2])
            /\ \E j \in 1..Len(EntityIds(e)) :
                  /\ EntityIds(e)[j][1] = EntityData(e)[i][1]
                  /\ Obtained(e, j) = EntityData(e)[i][2]

(* C26: no mutable shared state is written by concurrently running worker
   tasks: a worker only returns its own result, and every write to a result
   mapping (platform_data, the results of the batch calls, f1_data/f2_data)
   is made by the one thread that collects: the handler for the maps of the
   request, the thread running batch_scrape_twitter for its results. *)
WorkerStep(i) == FinishScrape(i) \/ FinishBatch(i)

HandlerStep ==
    \/ \E i \in DOMAIN futures : Collect(i)
    \/ Await
    \/ Split
    \/ AggregateSingle
    \/ BuildBatch

HandlerMaps == <<platform_data, detected_name, batch_results, split, response>>

C26_SingleWritingThread ==
    [][/\ \A i \in DOMAIN futures :
            WorkerStep(i) =>
                /\ UNCHANGED <<HandlerMaps, tw_partial>>
                /\ \A j \in DOMAIN futures \ {i} : futures'[j].result = futures[j].result
       /\ HandlerMaps' # HandlerMaps => HandlerStep
       /\ tw_partial' # tw_partial =>
            (3 \in Running /\ \E i \in tw_pending : TwitterInner(i))]_vars

\* Two workers ran side by side and the handler stored both results.
C26_Witness ==
    /\ mode = "single" /\ pc = "aggregate"
    /\ Len(futures) = 2 /\ collected = {1, 2}
    /\ Len(platform_data) = 2

\* The damage judge_turn works with: the judge's figure as an integer, when
\* it has one.
JudgedDamage(llm) == PyIntOf(GetOr(judge_roast(llm).damage, PyInt(50)))

\* C27: judge_turn enqueues the video job exactly when the judged damage is
\* greater than 80, at most once, with the match id as its key, and returns
\* while the job is still queued; in every response, the error fallback
\* included, is_critical is true exactly when the returned damage is
\* greater than 80.
C27_CriticalHitEnqueuesOnce ==
    (Returned /\ call.fn = "judge_turn") =>
        LET judged == JudgedDamage(call.arg[2])
            jobs == returned.value.enqueued
            resp == returned.value.response
        IN  /\ (jobs # <<>>) <=> (~judged.raised /\ judged.value > 80)
            /\ Len(jobs) <= 1
            /\ \A i \in 1..Len(jobs) :
                  /\ jobs[i].args[Len(jobs[i].args)] = call.arg[1]
                  /\ jobs[i].status = "queued"
            /\ resp.is_critical <=> (resp.damage > 80)

\* The usernames the upstream calls of the LinkedIn future name, one per
\* profile in submission order (each profile makes two calls).
LinkedinQueried(k) ==
    [i \in 1..Len(futures[k].task) |-> futures[k].calls[2 * i - 1].ids[1]]

\* C28: in the batch path, for every URL routed to linkedin, whatever its
\* letter case or trailing path, the username scrape_linkedin queries
\* upstream for the original URL is the username detect_platform extracted
\* from it, which keys the ownership map.
C28_AdapterQueriesRoutedUsername ==
    (mode = "batch" /\ has_token /\ 4 \in DOMAIN futures /\ futures[4].state = "done") =>
        /\ Len(futures[4].calls) = 2 * Len(futures[4].task)
        /\ \A i \in 1..Len(futures[4].task) :
              /\ futures[4].task[i][1] = detect_platform(futures[4].task[i][2]).username
              /\ LinkedinQueried(4)[i] = futures[4].task[i][1]

\* The requested usernames whose entry holds an item of page: the page item
\* (it sets the entry's user) or one of the page's posts.
AttributedTo(results, page) ==
    {u \in DictKeys(results) :
        \/ DictGet(results, u).user = page
        \/ \E i \in 1..Len(DictGet(results, u).posts) : DictGet(results, u).posts[i] = page}

\* C29: batch_scrape_facebook attributes every page item and every post of
\* the upstream response to at most one requested username, and only to the
\* username whose page it is, also when one requested username is a
\* substring of the URL of another's page.
C29_ItemsGoToTheirOwnPage ==
    (Returned /\ call.fn = "batch_scrape_facebook" /\ has_token
       /\ ~returned.value.raised) =>
        \A n \in 1..Len(call.arg) :
            LET page == lower(call.arg[n])
                owners == AttributedTo(returned.value.value, page)
            IN  /\ Cardinality(owners) <= 1
                /\ \A u \in owners : lower(u) = page

\* A username that is in no table and has an ordinary upstream record.
Unlisted == "carol"

\* The argument of the returned call with username u replaced by Unlisted.
WithUnlisted(u) ==
    IF call.fn = "scrape_platform" THEN <<call.arg[1], Unlisted>>
    ELSE [j \in 1..Len(call.arg) |-> IF call.arg[j] = u THEN Unlisted ELSE call.arg[j]]

\* What the twitter and instagram entry points return and the upstream calls
\* they issue on an argument.
EntryPointResult(fn, arg) ==
    CASE fn = "scrape_platform" -> scrape_platform(arg[1], arg[2])
      [] fn = "batch_scrape_twitter" -> Returns(TwitterInOrder(arg, <<>>))
      [] fn = "batch_scrape_instagram" -> batch_scrape_instagram(arg)

EntryPointCalls(fn, arg) ==
    CASE fn = "scrape_platform" -> scrape_platform_calls(arg[1], arg[2])
      [] fn = "batch_scrape_twitter" -> batch_scrape_twitter_calls(arg)
      [] fn = "batch_scrape_instagram" -> batch_scrape_instagram_calls(arg)

\* A payload up to the username it is about.
PayloadShape(payload, u) ==
    [kind |-> payload.kind, src |-> payload.src, fields |-> payload.fields,
     posts |-> Len(payload.posts), own |-> payload.user \in {u, lower(u)}]

\* The upstream calls with username u written as Unlisted.
CallsWithUnlisted(calls, u) ==
    [i \in 1..Len(calls) |->
        [api |-> calls[i].api,
         ids |-> [j \in 1..Len(calls[i].ids) |->
                    IF calls[i].ids[j] = u THEN Unlisted ELSE calls[i].ids[j]]]]

\* C30: the twitter and instagram entry points return a canned payload only
\* for a username registered in FALLBACK_DATA for their own platform; for a
\* username registered for the other platform they return and call upstream
\* exactly as for a username that is not in the table.
C30_CannedOnlyOnOwnPlatform ==
    (Returned /\ CallPlatform \in {"twitter", "instagram"}) =>
        \A i \in 1..Len(CallArgs) :
            LET u == CallArgs[i]
                other == EntryPointResult(call.fn, WithUnlisted(u))
            IN  /\ ReturnedFor(u).kind = "canned" =>
                      /\ lower(u) \in FALLBACK_KEYS
                      /\ FALLBACK_DATA(lower(u)).platform = CallPlatform
                      /\ ReturnedFor(u) = FALLBACK_DATA(lower(u)).data
                /\ (lower(u) \in FALLBACK_KEYS
                    /\ FALLBACK_DATA(lower(u)).platform # CallPlatform) =>
                      /\ returned.value.raised = other.raised
                      /\ PayloadShape(ReturnedFor(u), u)
                           = PayloadShape(IF other.raised THEN EmptyPayload
                                          ELSE IF call.fn = "scrape_platform"
                                          THEN other.value
                                          ELSE DictGetOr(other.value, Unlisted, EmptyPayload),
                                          Unlisted)
                      /\ CallsWithUnlisted(returned.calls, u)
                           = EntryPointCalls(call.fn, WithUnlisted(u))

\* A username registered for the other platform was scraped upstream like
\* any other: instagram for a twitter entry, twitter for the instagram entry.
C30_Witness ==
    /\ Returned /\ has_key /\ has_token
    /\ \/ /\ call.fn = "batch_scrape_instagram"
          /\ call.arg = <<"elonmusk", "zuck">>
          /\ ReturnedFor("elonmusk").kind = "item"
          /\ ReturnedFor("zuck").kind = "canned"
       \/ /\ call.fn = "scrape_platform"
          /\ call.arg = <<"twitter", "Zuck">>
          /\ ReturnedFor("Zuck").kind = "profile"

============================================================================
